---- MODULE Spec2Model ----
(***************************************************************************)
(* The perps subgraph mapping (src/src/perps.ts) as a state machine.       *)
(*                                                                         *)
(* State: one table per entity type of the store (a function from the      *)
(* entity id to the entity's fields), the set of market addresses          *)
(* registered as PerpsMarket data sources, and the position of the event   *)
(* feed (transaction, log index, block timestamp).  One action per event   *)
(* handler; an action performs every load and save of the handler.         *)
(*                                                                         *)
(* Fixed-point amounts: the protocol's unit is 10^18; the model's unit     *)
(* ETHER is one decimal digit so that products stay inside TLC's integers. *)
(* The handlers' arithmetic is the same for any unit.                      *)
(***************************************************************************)
EXTENDS Integers, Sequences, FiniteSets, TLC

VARIABLES
    FuturesMarket,          \* market address -> entity
    PerpsMarket,            \* entity type named by handleMarketRemoved
    FuturesPosition,        \* <<market, id>> -> entity
    FuturesStat,            \* account -> entity
    FuturesTrade,           \* <<tx, logIndex>> -> entity
    FuturesMarginTransfer,  \* <<market, tx, logIndex>> -> entity
    FuturesMarginAccount,   \* <<account, market>> -> entity
    FuturesCumulativeStat,  \* "0" or hex of a key -> entity
    FuturesAggregateStat,   \* <<bucket start, period, hex of asset>> -> entity
    FundingPayment,         \* <<position id, tx, logIndex>> -> entity
    FundingRateUpdate,      \* <<market, index>> -> entity
    FundingRatePeriod,      \* <<asset, period type, bucket start>> -> entity
    FuturesOrder,           \* <<asset, account, targetRoundId>> -> entity
    SmartMarginOrder,       \* <<account, marketKey>> -> entity
    SmartMarginAccount,     \* proxy address -> entity
    dataSources,            \* addresses PerpsMarket.create was called with
    txHash,                 \* transaction of the event being delivered
    logIndex,               \* log index of the last event delivered
    timestamp,              \* block timestamp of the event being delivered
    lastEvent,              \* the event the last handler run was given
    liquidationEvents       \* number of PositionLiquidated events handled

vars == <<FuturesMarket, PerpsMarket, FuturesPosition, FuturesStat, FuturesTrade,
          FuturesMarginTransfer, FuturesMarginAccount, FuturesCumulativeStat,
          FuturesAggregateStat, FundingPayment, FundingRateUpdate,
          FundingRatePeriod, FuturesOrder, SmartMarginOrder, SmartMarginAccount,
          dataSources, txHash, logIndex, timestamp, lastEvent, liquidationEvents>>

(***************************************************************************)
(* Bounds of the model.                                                    *)
(***************************************************************************)
\* number of events delivered in one behaviour
MaxEvents == 4
\* number of transactions the events are spread over
MaxTx == 2
\* events and transactions of the trading and of the bucketing specification
MaxTradeEvents == 4
MaxBucketEvents == 3
MaxBucketTx == 2
\* events of the delayed-order specification
MaxOrderEvents == 7
\* events of the funding specification
MaxFundingEvents == 6

(***************************************************************************)
(* Program constants.                                                      *)
(***************************************************************************)
\* lib/helpers: the fixed-point unit (scaled, see the header)
ETHER == 10
ZERO == 0
ONE == 1
ONE_HOUR_SECONDS == 3600
DAY_SECONDS == 86400
ZERO_ADDRESS == <<"0x0">>
SINGLE_INDEX == <<"0">>
AGG_PERIODS == <<ONE_HOUR_SECONDS, DAY_SECONDS>>
FUNDING_RATE_PERIODS == <<ONE_HOUR_SECONDS, DAY_SECONDS>>
FUNDING_RATE_PERIOD_TYPES == <<"Hourly", "Daily">>

(***************************************************************************)
(* BigInt and Bytes operations of graph-ts.                                *)
(***************************************************************************)
Abs(x) == IF x < 0 THEN -x ELSE x

\* BigInt.div truncates toward zero
BigIntDiv(a, b) ==
    IF (a >= 0) = (b > 0) THEN Abs(a) \div Abs(b) ELSE -(Abs(a) \div Abs(b))

\* BigInt.mod takes the sign of the dividend
BigIntMod(a, b) == a - b * BigIntDiv(a, b)

\* Bytes.toHex(): "0x" followed by the bytes; injective
ToHex(bytes) == <<"0x">> \o bytes

\* new Bytes(0)
EmptyBytes == <<>>

\* string.endsWith
EndsWith(s, suffix) ==
    /\ Len(s) >= Len(suffix)
    /\ SubSeq(s, Len(s) - Len(suffix) + 1, Len(s)) = suffix

\* an optional field: unset, or holding one value
Unset == <<>>
Some(v) == <<v>>

Has(table, id) == id \in DOMAIN table

\* entity.save(): create or replace
Save(table, id, entity) ==
    [k \in DOMAIN table \cup {id} |-> IF k = id THEN entity ELSE table[k]]

\* store.remove(type, id)
Remove(table, id) == [k \in DOMAIN table \ {id} |-> table[k]]


(***************************************************************************)
(* Get-or-create accessors.  Each returns the entity and the table as the  *)
(* call leaves it: a created entity is not in the table until it is saved. *)
(***************************************************************************)
NewCumulativeStat ==
    [totalLiquidations |-> ZERO, totalTrades |-> ZERO, totalTraders |-> ZERO,
     totalVolume |-> ZERO, averageTradeSize |-> ZERO]

getOrCreateCumulativeEntity(table) ==
    [entity |-> IF Has(table, SINGLE_INDEX) THEN table[SINGLE_INDEX]
                ELSE NewCumulativeStat,
     store  |-> table]

\* getOrCreateMarketCumulativeStats saving the entity it creates
getOrCreateMarketCumulativeStatsSaving(table, marketKey) ==
    [entity |-> IF Has(table, marketKey) THEN table[marketKey]
                ELSE NewCumulativeStat,
     store  |-> IF Has(table, marketKey) THEN table
                ELSE Save(table, marketKey, NewCumulativeStat)]

getOrCreateMarketCumulativeStats(table, marketKey) ==
    [entity |-> IF Has(table, marketKey) THEN table[marketKey]
                ELSE NewCumulativeStat,
     store  |-> table]

AggregateId(aggTimestamp, period, asset) == <<aggTimestamp, period, ToHex(asset)>>

getOrCreateMarketAggregateStats(table, marketKey, asset, aggTimestamp, period) ==
    LET id == AggregateId(aggTimestamp, period, asset)
    IN  [entity |-> IF Has(table, id) THEN table[id]
                    ELSE [period |-> period, timestamp |-> aggTimestamp,
                          marketKey |-> marketKey, asset |-> asset,
                          trades |-> ZERO, volume |-> ZERO, feesKwenta |-> ZERO,
                          feesSynthetix |-> ZERO, feesCrossMarginAccounts |-> ZERO],
         store  |-> table]

\* timestamp reduced to the start of its period
\* getTimeID without the reduction
getTimeIDUnreduced(time, num) == time

getTimeID(time, num) == time - BigIntMod(time, num)

\* what one aggregate row gains in an update
AddToAggregate(row, trades, volume, feesSynthetix, feesKwenta, feesCross) ==
    [row EXCEPT !.trades = @ + trades,
                !.volume = @ + volume,
                !.feesSynthetix = @ + feesSynthetix,
                !.feesKwenta = @ + feesKwenta,
                !.feesCrossMarginAccounts = @ + feesCross]

\* UpdateAggregatePeriod updating the row of the market only
UpdateAggregatePeriodOfMarket(table, thisPeriod, accountType, marketKey, asset, time, trades, volume, feesSynthetix, feesKwenta) ==
    LET aggTimestamp == getTimeID(time, thisPeriod)
        totalFees    == feesSynthetix + feesKwenta
        feesCross    == IF accountType = "smart_margin" THEN totalFees ELSE ZERO
        got1   == getOrCreateMarketAggregateStats(table, marketKey, asset,
                                                  aggTimestamp, thisPeriod)
    IN  Save(got1.store, AggregateId(aggTimestamp, thisPeriod, asset),
             AddToAggregate(got1.entity, trades, volume, feesSynthetix,
                            feesKwenta, feesCross))

\* one iteration of the loop over AGG_PERIODS
UpdateAggregatePeriod(table, thisPeriod, accountType, marketKey, asset, time, trades, volume, feesSynthetix, feesKwenta) ==
    LET aggTimestamp == getTimeID(time, thisPeriod)
        totalFees    == feesSynthetix + feesKwenta
        feesCross    == IF accountType = "smart_margin" THEN totalFees ELSE ZERO
        got1   == getOrCreateMarketAggregateStats(table, marketKey, asset,
                                                  aggTimestamp, thisPeriod)
        table1 == Save(got1.store, AggregateId(aggTimestamp, thisPeriod, asset),
                       AddToAggregate(got1.entity, trades, volume, feesSynthetix,
                                      feesKwenta, feesCross))
        got2   == getOrCreateMarketAggregateStats(table1, EmptyBytes, EmptyBytes,
                                                  aggTimestamp, thisPeriod)
    IN  Save(got2.store, AggregateId(aggTimestamp, thisPeriod, EmptyBytes),
             AddToAggregate(got2.entity, trades, volume, feesSynthetix,
                            feesKwenta, feesCross))

RECURSIVE AggregateLoop(_, _, _, _, _, _, _, _, _, _)
AggregateLoop(table, period, accountType, marketKey, asset, time, trades, volume, feesSynthetix, feesKwenta) ==
    IF period > Len(AGG_PERIODS) THEN table
    ELSE AggregateLoop(
             UpdateAggregatePeriod(table, AGG_PERIODS[period], accountType,
                                   marketKey, asset, time, trades, volume,
                                   feesSynthetix, feesKwenta),
             period + 1, accountType, marketKey, asset, time,
             trades, volume, feesSynthetix, feesKwenta)

updateAggregateStatEntities(table, accountType, marketKey, asset, time, trades, volume, feesSynthetix, feesKwenta) ==
    AggregateLoop(table, 1, accountType, marketKey, asset, time,
                  trades, volume, feesSynthetix, feesKwenta)

(***************************************************************************)
(* Account resolution: the owner of a smart-margin proxy, or the address.  *)
(***************************************************************************)
ResolveAccount(sendingAccount) ==
    IF Has(SmartMarginAccount, sendingAccount)
    THEN SmartMarginAccount[sendingAccount].owner
    ELSE sendingAccount

ResolveAccountType(sendingAccount) ==
    IF Has(SmartMarginAccount, sendingAccount) THEN "smart_margin"
    ELSE "isolated_margin"


(***************************************************************************)
(* handlePositionModified                                                  *)
(***************************************************************************)
\* an unset Bytes field
Null == <<"null">>

\* the position of the event being delivered
EventLogIndex == logIndex + 1

PositionId(market, id) == <<market, id>>

NewFuturesStat(account) ==
    [account |-> account, feesPaid |-> ZERO, pnl |-> ZERO, pnlWithFeesPaid |-> ZERO,
     liquidations |-> ZERO, totalTrades |-> ZERO, totalVolume |-> ZERO,
     smartMarginVolume |-> ZERO]

NewFuturesPosition(e, account, accountType) ==
    [market |-> e.address,
     asset |-> IF Has(FuturesMarket, e.address) THEN FuturesMarket[e.address].asset ELSE Null,
     marketKey |-> IF Has(FuturesMarket, e.address) THEN FuturesMarket[e.address].marketKey ELSE Null,
     account |-> account, abstractAccount |-> e.account, accountType |-> accountType,
     isLiquidated |-> FALSE, isOpen |-> TRUE, size |-> e.size,
     timestamp |-> timestamp, openTimestamp |-> timestamp,
     avgEntryPrice |-> e.lastPrice, trades |-> ZERO, entryPrice |-> e.lastPrice,
     lastPrice |-> e.lastPrice, margin |-> e.margin,
     initialMargin |-> e.margin + e.fee,
     pnl |-> ZERO, feesPaid |-> ZERO, netFunding |-> ZERO, pnlWithFeesPaid |-> ZERO,
     netTransfers |-> ZERO, totalDeposits |-> ZERO, totalVolume |-> ZERO,
     fundingIndex |-> e.fundingIndex,
     exitPrice |-> Unset, closeTimestamp |-> Unset, lastTxHash |-> Unset]

\* both funding checkpoints are stored and the index moved
FundingApplies(position, e) ==
    /\ position.fundingIndex # e.fundingIndex
    /\ Has(FundingRateUpdate, <<e.address, position.fundingIndex>>)
    /\ Has(FundingRateUpdate, <<e.address, e.fundingIndex>>)

\* FundingAccrued on the size the event reports
FundingAccruedOnNewSize(position, e) ==
    IF FundingApplies(position, e)
    THEN BigIntDiv((FundingRateUpdate[<<e.address, e.fundingIndex>>].funding
                    - FundingRateUpdate[<<e.address, position.fundingIndex>>].funding)
                   * e.size, ETHER)
    ELSE ZERO

FundingAccrued(position, e) ==
    IF FundingApplies(position, e)
    THEN BigIntDiv((FundingRateUpdate[<<e.address, e.fundingIndex>>].funding
                    - FundingRateUpdate[<<e.address, position.fundingIndex>>].funding)
                   * position.size, ETHER)
    ELSE ZERO

\* ClosePnl rounding toward minus infinity
ClosePnlFloored(position, e) ==
    ((e.lastPrice - position.avgEntryPrice) * position.size) \div ETHER

\* pnl realised on the whole stored size (close and side flip)
ClosePnl(position, e) ==
    BigIntDiv((e.lastPrice - position.avgEntryPrice) * position.size, ETHER)

\* ReducePnl on the size that is left
ReducePnlOnNewSize(position, e) ==
    BigIntDiv((e.lastPrice - position.avgEntryPrice) * Abs(e.size)
              * (IF e.size > ZERO THEN 1 ELSE -1), ETHER)

\* pnl realised on the traded size (same side, size not increased)
ReducePnl(position, e) ==
    BigIntDiv((e.lastPrice - position.avgEntryPrice) * Abs(e.tradeSize)
              * (IF e.size > ZERO THEN 1 ELSE -1), ETHER)

\* WeightedEntryPrice giving both prices the same weight
UnweightedEntryPrice(position, e) ==
    BigIntDiv(position.entryPrice + e.lastPrice, 2)

\* the new average entry price of a size increase
WeightedEntryPrice(position, e) ==
    BigIntDiv(Abs(position.size) * position.entryPrice + Abs(e.tradeSize) * e.lastPrice,
              Abs(e.size))

\* SideFlips seeing only the flip from short to long
SideFlipsToLongOnly(position, e) == position.size < ZERO /\ e.size > ZERO

SideFlips(position, e) ==
    \/ position.size < ZERO /\ e.size > ZERO
    \/ position.size > ZERO /\ e.size < ZERO

TradeVolume(e) == Abs(BigIntDiv(e.tradeSize * e.lastPrice, ETHER))

\* the pnl of the trade a PositionModified event with tradeSize # 0 records
TradePnl(position, e) ==
    IF e.size = ZERO THEN ClosePnl(position, e)
    ELSE IF SideFlips(position, e) THEN ClosePnl(position, e)
    ELSE IF Abs(e.size) > Abs(position.size) THEN ZERO
    ELSE ReducePnl(position, e)

\* PositionAfterTrade writing the new average of an increase to avgEntryPrice
\* only
PositionAfterTradeAveragingOnce(position, e) ==
    IF e.size = ZERO
    THEN [position EXCEPT !.pnl = @ + ClosePnl(position, e),
                          !.isOpen = FALSE,
                          !.exitPrice = Some(e.lastPrice),
                          !.closeTimestamp = Some(timestamp)]
    ELSE IF SideFlips(position, e)
    THEN [position EXCEPT !.pnl = @ + ClosePnl(position, e),
                          !.entryPrice = e.lastPrice,
                          !.avgEntryPrice = e.lastPrice]
    ELSE IF Abs(e.size) > Abs(position.size)
    THEN [position EXCEPT !.avgEntryPrice = WeightedEntryPrice(position, e)]
    ELSE [position EXCEPT !.pnl = @ + ReducePnl(position, e)]

\* the position after the pnl and entry-price update of a trade
PositionAfterTrade(position, e) ==
    IF e.size = ZERO
    THEN [position EXCEPT !.pnl = @ + ClosePnl(position, e),
                          !.isOpen = FALSE,
                          !.exitPrice = Some(e.lastPrice),
                          !.closeTimestamp = Some(timestamp)]
    ELSE IF SideFlips(position, e)
    THEN [position EXCEPT !.pnl = @ + ClosePnl(position, e),
                          !.entryPrice = e.lastPrice,
                          !.avgEntryPrice = e.lastPrice]
    ELSE IF Abs(e.size) > Abs(position.size)
    THEN [position EXCEPT !.entryPrice = WeightedEntryPrice(position, e),
                          !.avgEntryPrice = WeightedEntryPrice(position, e)]
    ELSE [position EXCEPT !.pnl = @ + ReducePnl(position, e)]

\* the full-loss values of the liquidation branch
LiquidationPnlWithFeesPaid(position) ==
    (position.initialMargin + position.netTransfers) * (-1)

LiquidationPnl(position) ==
    LiquidationPnlWithFeesPaid(position) + position.feesPaid - position.netFunding

\* IsLiquidation without the look-up of the margin transfer
IsLiquidationIgnoringTransfer(e) ==
    /\ e.size = ZERO
    /\ e.margin = ZERO

\* the tradeSize = 0 event is a liquidation
IsLiquidation(e) ==
    /\ ~Has(FuturesMarginTransfer, <<e.address, txHash, EventLogIndex - 1>>)
    /\ e.size = ZERO
    /\ e.margin = ZERO

\* the tradeSize = 0 event follows its margin transfer
IsMarginTransfer(e) ==
    /\ ~IsLiquidation(e)
    /\ Has(FuturesMarginTransfer, <<e.address, txHash, EventLogIndex - 1>>)


\* the FuturesTrade a PositionModified event with tradeSize # 0 records
MarketTrade(position, e, account, accountType, fundingAccrued) ==
    [timestamp |-> timestamp, account |-> account, abstractAccount |-> e.account,
     accountType |-> accountType, margin |-> e.margin + e.fee, size |-> e.tradeSize,
     asset |-> IF Has(FuturesMarket, e.address) THEN FuturesMarket[e.address].asset ELSE ZERO_ADDRESS,
     marketKey |-> IF Has(FuturesMarket, e.address) THEN FuturesMarket[e.address].marketKey ELSE ZERO_ADDRESS,
     price |-> e.lastPrice, positionId |-> PositionId(e.address, e.id),
     positionSize |-> e.size, positionClosed |-> (e.size = ZERO),
     pnl |-> TradePnl(position, e), feesPaid |-> e.fee,
     fundingAccrued |-> fundingAccrued, keeperFeesPaid |-> ZERO,
     orderType |-> "Market", trackingCode |-> ZERO_ADDRESS]

\* LiquidationTrade carrying the whole full-loss pnl of the position
LiquidationTradeOfWholePnl(position, e, account, accountType, fundingAccrued) ==
    [timestamp |-> timestamp, account |-> account, abstractAccount |-> e.account,
     accountType |-> accountType, margin |-> ZERO, size |-> ZERO,
     asset |-> position.asset, marketKey |-> position.marketKey,
     price |-> e.lastPrice, positionId |-> PositionId(e.address, e.id),
     positionSize |-> ZERO, positionClosed |-> TRUE,
     pnl |-> LiquidationPnl(position), feesPaid |-> e.fee,
     fundingAccrued |-> fundingAccrued, keeperFeesPaid |-> ZERO,
     orderType |-> "Liquidation", trackingCode |-> ZERO_ADDRESS]

\* the synthetic FuturesTrade of the liquidation branch
LiquidationTrade(position, e, account, accountType, fundingAccrued) ==
    [timestamp |-> timestamp, account |-> account, abstractAccount |-> e.account,
     accountType |-> accountType, margin |-> ZERO, size |-> ZERO,
     asset |-> position.asset, marketKey |-> position.marketKey,
     price |-> e.lastPrice, positionId |-> PositionId(e.address, e.id),
     positionSize |-> ZERO, positionClosed |-> TRUE,
     pnl |-> LiquidationPnl(position) - position.pnl, feesPaid |-> e.fee,
     fundingAccrued |-> fundingAccrued, keeperFeesPaid |-> ZERO,
     orderType |-> "Liquidation", trackingCode |-> ZERO_ADDRESS]

\* the trailing update of the trader's stat
StatTrailing(stat, e) ==
    [stat EXCEPT !.pnlWithFeesPaid = stat.pnl - stat.feesPaid,
                 !.feesPaid = stat.feesPaid + e.fee]

\* the trailing update of the position
PositionTrailing(position, e) ==
    [position EXCEPT !.size = e.size,
                     !.margin = e.margin,
                     !.lastPrice = e.lastPrice,
                     !.feesPaid = position.feesPaid + e.fee,
                     !.pnlWithFeesPaid = position.pnl - (position.feesPaid + e.fee) + position.netFunding,
                     !.lastTxHash = Some(txHash),
                     !.timestamp = timestamp]

\* CumulativeAfterTrade dividing by the trades counted before this one
CumulativeAveragedBeforeCount(cum, volume) ==
    [cum EXCEPT !.totalTrades = @ + 1,
                !.totalVolume = @ + volume,
                !.averageTradeSize = IF cum.totalTrades = 0 THEN ZERO
                                     ELSE BigIntDiv(cum.totalVolume + volume,
                                                    cum.totalTrades)]

\* the global cumulative stat after one more trade of the given volume
CumulativeAfterTrade(cum, volume) ==
    [cum EXCEPT !.totalTrades = @ + 1,
                !.totalVolume = @ + volume,
                !.averageTradeSize = BigIntDiv(cum.totalVolume + volume, cum.totalTrades + 1)]

\* MarketCumulativeAfterTrade counting no trade
MarketCumulativeVolumeOnly(cum, volume) ==
    [cum EXCEPT !.totalVolume = @ + volume]

\* the market's cumulative stat after one more trade of the given volume
MarketCumulativeAfterTrade(cum, volume) ==
    [cum EXCEPT !.totalTrades = @ + 1,
                !.totalVolume = @ + volume,
                !.averageTradeSize = BigIntDiv(cum.totalVolume + volume, cum.totalTrades + 1)]

\* PaysFunding recording only the funding the position receives
PaysFundingWhenReceived(fundingAccrued) == fundingAccrued > ZERO

\* the accrued funding is recorded as a FundingPayment
PaysFunding(fundingAccrued) == Abs(fundingAccrued) > ZERO

handlePositionModified(e) ==
    LET sendingAccount == e.account
        account     == ResolveAccount(sendingAccount)
        accountType == ResolveAccountType(sendingAccount)
        positionId  == PositionId(e.address, e.id)
        hasMarket   == Has(FuturesMarket, e.address)
        marginAccountId == <<sendingAccount, e.address>>
        statIsNew   == ~Has(FuturesStat, account)
        stat0 == IF statIsNew THEN NewFuturesStat(account) ELSE FuturesStat[account]
        cumLoaded == getOrCreateCumulativeEntity(FuturesCumulativeStat).entity
        cum0  == IF statIsNew THEN [cumLoaded EXCEPT !.totalTraders = @ + 1] ELSE cumLoaded
        pos0  == IF Has(FuturesPosition, positionId) THEN FuturesPosition[positionId]
                 ELSE NewFuturesPosition(e, account, accountType)
        \* funding accrued since the stored funding index
        applies == FundingApplies(pos0, e)
        fundingAccrued == FundingAccrued(pos0, e)
        pos1  == IF applies THEN [pos0 EXCEPT !.netFunding = @ + fundingAccrued,
                                              !.fundingIndex = e.fundingIndex]
                 ELSE pos0
        stat1 == IF applies THEN [stat0 EXCEPT !.feesPaid = @ - fundingAccrued] ELSE stat0
        \* tradeSize # 0: a trade
        isTrade == e.tradeSize # ZERO
        volume  == TradeVolume(e)
        tradeId == <<txHash, EventLogIndex>>
        posT  == [PositionAfterTrade(pos1, e) EXCEPT !.trades = @ + 1,
                                                     !.totalVolume = @ + volume]
        statT == [stat1 EXCEPT !.pnl = @ + TradePnl(pos1, e),
                               !.totalTrades = @ + 1,
                               !.totalVolume = @ + volume,
                               !.smartMarginVolume =
                                   IF accountType = "smart_margin" THEN @ + volume ELSE @]
        \* tradeSize = 0: a liquidation, a margin transfer, or neither
        isLiq == ~isTrade /\ IsLiquidation(e)
        isXfer == ~isTrade /\ IsMarginTransfer(e)
        xfer  == FuturesMarginTransfer[<<e.address, txHash, EventLogIndex - 1>>]
        posL  == [pos1 EXCEPT !.pnl = LiquidationPnl(pos1),
                              !.pnlWithFeesPaid = LiquidationPnlWithFeesPaid(pos1)]
        statL == [stat1 EXCEPT !.pnl = @ + (LiquidationPnl(pos1) - pos1.pnl)]
        posX  == [pos1 EXCEPT !.netTransfers = @ + xfer.size,
                              !.totalDeposits = IF xfer.size > ZERO THEN @ + xfer.size ELSE @]
        pos2  == IF isTrade THEN posT ELSE IF isLiq THEN posL ELSE IF isXfer THEN posX ELSE pos1
        stat2 == IF isTrade THEN statT ELSE IF isLiq THEN statL ELSE stat1
        cum2  == IF isTrade THEN CumulativeAfterTrade(cum0, volume) ELSE cum0
        \* per-market cumulative stats, keyed by the hex of the market's asset
        marketStatsId == ToHex(FuturesMarket[e.address].asset)
        marketStats == getOrCreateMarketCumulativeStats(FuturesCumulativeStat, marketStatsId)
        cumTable1 == IF isTrade /\ hasMarket
                     THEN Save(marketStats.store, marketStatsId,
                               MarketCumulativeAfterTrade(marketStats.entity, volume))
                     ELSE FuturesCumulativeStat
    IN  /\ FundingPayment' =
              IF applies /\ PaysFunding(fundingAccrued)
              THEN Save(FundingPayment, <<positionId, txHash, EventLogIndex>>,
                        [timestamp |-> timestamp, account |-> account,
                         positionId |-> positionId, marketKey |-> pos0.marketKey,
                         asset |-> pos0.asset, amount |-> fundingAccrued])
              ELSE FundingPayment
        /\ FuturesTrade' =
              IF isTrade
              THEN Save(FuturesTrade, tradeId,
                        MarketTrade(pos1, e, account, accountType, fundingAccrued))
              ELSE IF isLiq
              THEN Save(FuturesTrade, tradeId,
                        LiquidationTrade(pos1, e, account, accountType, fundingAccrued))
              ELSE FuturesTrade
        /\ FuturesAggregateStat' =
              IF isTrade /\ hasMarket
              THEN updateAggregateStatEntities(FuturesAggregateStat, accountType,
                       pos2.marketKey, pos2.asset, timestamp, ONE, volume, e.fee, ZERO)
              ELSE FuturesAggregateStat
        /\ FuturesMarginAccount' =
              IF Has(FuturesMarginAccount, marginAccountId)
              THEN Save(FuturesMarginAccount, marginAccountId,
                        [FuturesMarginAccount[marginAccountId] EXCEPT
                            !.margin = e.margin, !.timestamp = timestamp])
              ELSE FuturesMarginAccount
        /\ FuturesPosition' = Save(FuturesPosition, positionId, PositionTrailing(pos2, e))
        /\ FuturesStat' = Save(FuturesStat, account, StatTrailing(stat2, e))
        /\ FuturesCumulativeStat' = Save(cumTable1, SINGLE_INDEX, cum2)
        /\ UNCHANGED <<FuturesMarket, PerpsMarket, FuturesMarginTransfer, FundingRateUpdate,
                       FundingRatePeriod, FuturesOrder, SmartMarginOrder,
                       SmartMarginAccount, dataSources, liquidationEvents>>


(***************************************************************************)
(* handlePositionLiquidated and handlePositionLiquidatedV2                 *)
(***************************************************************************)
\* the global liquidation counter of handlePositionLiquidated
CountLiquidation(table) ==
    LET cumulativeEntity == getOrCreateCumulativeEntity(table)
    IN  Save(cumulativeEntity.store, SINGLE_INDEX,
             [cumulativeEntity.entity EXCEPT !.totalLiquidations = @ + 1])

\* CountLiquidationV2 counting only liquidations of stored positions
CountLiquidationV2IfPosition(table) ==
    IF DOMAIN FuturesPosition = {} THEN table
    ELSE LET cumulativeEntity == getOrCreateCumulativeEntity(table)
         IN  Save(cumulativeEntity.store, SINGLE_INDEX,
                  [cumulativeEntity.entity EXCEPT !.totalLiquidations = @ + 1])

\* the global liquidation counter of handlePositionLiquidatedV2
CountLiquidationV2(table) ==
    LET cumulativeEntity == getOrCreateCumulativeEntity(table)
    IN  Save(cumulativeEntity.store, SINGLE_INDEX,
             [cumulativeEntity.entity EXCEPT !.totalLiquidations = @ + 1])

\* AdjacentTradeId reaching two log indices back
AdjacentTradeIdTwoBack == <<txHash, EventLogIndex - 2>>

\* the key under which the liquidation and order-removal handlers look for
\* the trade of the event before theirs
AdjacentTradeId == <<txHash, EventLogIndex - 1>>

\* LiquidatedPosition leaving isOpen as it finds it
LiquidatedPositionLeftOpen(position, fee, time) ==
    [position EXCEPT
        !.isLiquidated = TRUE,
        !.closeTimestamp = Some(time),
        !.feesPaid = position.feesPaid + fee,
        !.pnl = position.pnl + fee,
        !.pnlWithFeesPaid = (position.pnl + fee) - (position.feesPaid + fee)
                            + position.netFunding]

\* the position a PositionLiquidated event leaves behind
LiquidatedPosition(position, fee, time) ==
    [position EXCEPT
        !.isLiquidated = TRUE,
        !.isOpen = FALSE,
        !.closeTimestamp = Some(time),
        !.feesPaid = position.feesPaid + fee,
        !.pnl = position.pnl + fee,
        !.pnlWithFeesPaid = (position.pnl + fee) - (position.feesPaid + fee)
                            + position.netFunding]

\* the account's stat after a PositionLiquidated event
LiquidatedStat(stat, fee) ==
    [stat EXCEPT
        !.liquidations = @ + 1,
        !.feesPaid = stat.feesPaid + fee,
        !.pnl = stat.pnl + fee,
        !.pnlWithFeesPaid = (stat.pnl + fee) - (stat.feesPaid + fee)]

\* LiquidatedTrade keeping the size the trade was recorded with
LiquidatedTradeKeepingSize(trade, size, fee) ==
    [trade EXCEPT
        !.positionSize = ZERO,
        !.feesPaid = @ + fee,
        !.pnl = @ + fee]

\* the trade at the previous log index after a PositionLiquidated event
LiquidatedTrade(trade, size, fee) ==
    [trade EXCEPT
        !.size = size * (-1),
        !.positionSize = ZERO,
        !.feesPaid = @ + fee,
        !.pnl = @ + fee]

handlePositionLiquidated(e) ==
    LET sendingAccount == e.account
        account    == ResolveAccount(sendingAccount)
        positionId == PositionId(e.address, e.id)
        tradeId    == AdjacentTradeId
        hasPosition == Has(FuturesPosition, positionId)
        hasStat    == Has(FuturesStat, account)
        hasTrade   == Has(FuturesTrade, tradeId)
        position   == FuturesPosition[positionId]
        stat       == FuturesStat[account]
        trade      == FuturesTrade[tradeId]
        cumTable1  == CountLiquidation(FuturesCumulativeStat)
        marketStatsId == ToHex(position.asset)
        marketCumulativeStats == getOrCreateMarketCumulativeStats(cumTable1, marketStatsId)
    IN  /\ FuturesPosition' =
              IF hasPosition
              THEN Save(FuturesPosition, positionId,
                        LiquidatedPosition(position, e.fee, timestamp))
              ELSE FuturesPosition
        /\ FuturesStat' =
              IF hasPosition /\ hasStat
              THEN Save(FuturesStat, account, LiquidatedStat(stat, e.fee))
              ELSE FuturesStat
        /\ FuturesTrade' =
              IF hasPosition /\ hasTrade
              THEN Save(FuturesTrade, tradeId, LiquidatedTrade(trade, e.size, e.fee))
              ELSE FuturesTrade
        /\ FuturesCumulativeStat' =
              IF hasPosition /\ position.asset # Null
              THEN Save(marketCumulativeStats.store, marketStatsId,
                        [marketCumulativeStats.entity EXCEPT !.totalLiquidations = @ + 1])
              ELSE cumTable1
        /\ liquidationEvents' = liquidationEvents + 1
        /\ UNCHANGED <<FuturesMarket, PerpsMarket, FuturesMarginTransfer,
                       FuturesMarginAccount, FuturesAggregateStat, FundingPayment,
                       FundingRateUpdate, FundingRatePeriod, FuturesOrder,
                       SmartMarginOrder, SmartMarginAccount, dataSources>>

\* TotalFee leaving the flagger's fee out
TotalFeeWithoutFlagger(e) == e.liquidatorFee + e.stakersFee

\* the fee handlePositionLiquidatedV2 computes from the fees of its event
TotalFee(e) == e.flaggerFee + e.liquidatorFee + e.stakersFee

handlePositionLiquidatedV2(e) ==
    LET sendingAccount == e.account
        account    == ResolveAccount(sendingAccount)
        positionId == PositionId(e.address, e.id)
        tradeId    == AdjacentTradeId
        hasPosition == Has(FuturesPosition, positionId)
        hasStat    == Has(FuturesStat, account)
        hasTrade   == Has(FuturesTrade, tradeId)
        position   == FuturesPosition[positionId]
        stat       == FuturesStat[account]
        trade      == FuturesTrade[tradeId]
        totalFee   == TotalFee(e)
        cumTable1  == CountLiquidationV2(FuturesCumulativeStat)
        marketStatsId == ToHex(position.asset)
        marketCumulativeStats == getOrCreateMarketCumulativeStats(cumTable1, marketStatsId)
    IN  /\ FuturesPosition' =
              IF hasPosition
              THEN Save(FuturesPosition, positionId,
                        LiquidatedPosition(position, totalFee, timestamp))
              ELSE FuturesPosition
        /\ FuturesStat' =
              IF hasPosition /\ hasStat
              THEN Save(FuturesStat, account, LiquidatedStat(stat, totalFee))
              ELSE FuturesStat
        /\ FuturesTrade' =
              IF hasPosition /\ hasTrade
              THEN Save(FuturesTrade, tradeId, LiquidatedTrade(trade, e.size, totalFee))
              ELSE FuturesTrade
        /\ FuturesCumulativeStat' =
              IF hasPosition /\ position.asset # Null
              THEN Save(marketCumulativeStats.store, marketStatsId,
                        [marketCumulativeStats.entity EXCEPT !.totalLiquidations = @ + 1])
              ELSE cumTable1
        /\ liquidationEvents' = liquidationEvents + 1
        /\ UNCHANGED <<FuturesMarket, PerpsMarket, FuturesMarginTransfer,
                       FuturesMarginAccount, FuturesAggregateStat, FundingPayment,
                       FundingRateUpdate, FundingRatePeriod, FuturesOrder,
                       SmartMarginOrder, SmartMarginAccount, dataSources>>

\* the wrapper drops the parameter skew and hands the event on
handlePositionModifiedV2(e) ==
    handlePositionModified([name \in DOMAIN e \ {"skew"} |-> e[name]])

(***************************************************************************)
(* handleV2MarketAdded and handleMarketRemoved                             *)
(***************************************************************************)
\* IsV2Market taking every market for a v2 market
IsV2MarketAlways(marketKey) == TRUE

\* the check before the template data source is created
IsV2Market(marketKey) == EndsWith(marketKey, <<"PERP">>)

handleV2MarketAdded(e) ==
    LET marketStatsId == ToHex(e.marketKey)
        marketStats == getOrCreateMarketCumulativeStats(FuturesCumulativeStat, marketStatsId)
    IN  /\ FuturesCumulativeStat' = Save(marketStats.store, marketStatsId, marketStats.entity)
        /\ FuturesMarket' = Save(FuturesMarket, e.market,
                                 [asset |-> e.asset, marketKey |-> e.marketKey,
                                  marketStats |-> marketStatsId])
        /\ dataSources' = IF IsV2Market(e.marketKey)
                          THEN dataSources \cup {e.market}
                          ELSE dataSources
        /\ UNCHANGED <<PerpsMarket, FuturesPosition, FuturesStat, FuturesTrade,
                       FuturesMarginTransfer, FuturesMarginAccount, FuturesAggregateStat,
                       FundingPayment, FundingRateUpdate, FundingRatePeriod, FuturesOrder,
                       SmartMarginOrder, SmartMarginAccount, liquidationEvents>>

handleMarketRemoved(e) ==
    /\ PerpsMarket' = Remove(PerpsMarket, e.market)
    /\ UNCHANGED <<FuturesMarket, FuturesPosition, FuturesStat, FuturesTrade,
                   FuturesMarginTransfer, FuturesMarginAccount, FuturesCumulativeStat,
                   FuturesAggregateStat, FundingPayment, FundingRateUpdate,
                   FundingRatePeriod, FuturesOrder, SmartMarginOrder, SmartMarginAccount,
                   dataSources, liquidationEvents>>


(***************************************************************************)
(* handleMarginTransferred                                                 *)
(***************************************************************************)
handleMarginTransferred(e) ==
    LET hasMarket == Has(FuturesMarket, e.address)
        marketEntity == FuturesMarket[e.address]
        transferId == <<e.address, txHash, EventLogIndex>>
        marginAccountId == <<e.account, e.address>>
        isNewAccount == ~Has(FuturesMarginAccount, marginAccountId)
        marginAccount0 ==
            IF isNewAccount
            THEN [timestamp |-> timestamp, account |-> e.account, market |-> e.address,
                  margin |-> ZERO, deposits |-> ZERO, withdrawals |-> ZERO,
                  asset |-> IF hasMarket THEN marketEntity.asset ELSE Null]
            ELSE FuturesMarginAccount[marginAccountId]
        marginAccount1 ==
            IF e.marginDelta > ZERO
            THEN [marginAccount0 EXCEPT !.deposits = @ + Abs(e.marginDelta)]
            ELSE marginAccount0
        marginAccount2 ==
            IF e.marginDelta < ZERO
            THEN [marginAccount1 EXCEPT !.withdrawals = @ + Abs(e.marginDelta)]
            ELSE marginAccount1
        marketStatsId == ToHex(marketEntity.asset)
        marketStats == getOrCreateMarketCumulativeStats(FuturesCumulativeStat, marketStatsId)
    IN  /\ FuturesMarginTransfer' =
              Save(FuturesMarginTransfer, transferId,
                   [timestamp |-> timestamp, account |-> e.account, market |-> e.address,
                    size |-> e.marginDelta, txHash |-> txHash,
                    asset |-> IF hasMarket THEN marketEntity.asset ELSE Null,
                    marketKey |-> IF hasMarket THEN marketEntity.marketKey ELSE Null])
        /\ FuturesCumulativeStat' =
              IF isNewAccount /\ hasMarket
              THEN Save(marketStats.store, marketStatsId,
                        [marketStats.entity EXCEPT !.totalTraders = @ + 1])
              ELSE FuturesCumulativeStat
        /\ FuturesMarginAccount' = Save(FuturesMarginAccount, marginAccountId, marginAccount2)
        /\ UNCHANGED <<FuturesMarket, PerpsMarket, FuturesPosition, FuturesStat,
                       FuturesTrade, FuturesAggregateStat, FundingPayment,
                       FundingRateUpdate, FundingRatePeriod, FuturesOrder,
                       SmartMarginOrder, SmartMarginAccount, dataSources,
                       liquidationEvents>>

(***************************************************************************)
(* handleFundingRecomputed and updateFundingRatePeriods                    *)
(***************************************************************************)
FundingRatePeriodId(asset, periodType, periodId) == <<asset, periodType, periodId>>

\* UpdateFundingRatePeriod leaving a stored period as it is
UpdateFundingRatePeriodOnce(table, p, time, asset, rate) ==
    LET periodSeconds == FUNDING_RATE_PERIODS[p]
        periodType == FUNDING_RATE_PERIOD_TYPES[p]
        periodId == getTimeID(time, periodSeconds)
        id == FundingRatePeriodId(asset, periodType, periodId)
    IN  IF ~Has(table, id)
        THEN Save(table, id,
                  [fundingRate |-> rate.fundingRate, asset |-> rate.asset,
                   marketKey |-> rate.marketKey, period |-> periodType,
                   timestamp |-> time - BigIntMod(time, periodSeconds)])
        ELSE table

\* one iteration of the loop over FUNDING_RATE_PERIODS
UpdateFundingRatePeriod(table, p, time, asset, rate) ==
    LET periodSeconds == FUNDING_RATE_PERIODS[p]
        periodType == FUNDING_RATE_PERIOD_TYPES[p]
        periodId == getTimeID(time, periodSeconds)
        id == FundingRatePeriodId(asset, periodType, periodId)
    IN  IF ~Has(table, id)
        THEN Save(table, id,
                  [fundingRate |-> rate.fundingRate, asset |-> rate.asset,
                   marketKey |-> rate.marketKey, period |-> periodType,
                   timestamp |-> time - BigIntMod(time, periodSeconds)])
        ELSE Save(table, id, [table[id] EXCEPT !.fundingRate = rate.fundingRate])

RECURSIVE FundingRatePeriodLoop(_, _, _, _, _)
FundingRatePeriodLoop(table, p, time, asset, rate) ==
    IF p > Len(FUNDING_RATE_PERIODS) THEN table
    ELSE FundingRatePeriodLoop(UpdateFundingRatePeriod(table, p, time, asset, rate),
                               p + 1, time, asset, rate)

updateFundingRatePeriods(table, time, asset, rate) ==
    FundingRatePeriodLoop(table, 1, time, asset, rate)

handleFundingRecomputed(e) ==
    LET hasMarket == Has(FuturesMarket, e.address)
        marketEntity == FuturesMarket[e.address]
        fundingRateUpdateEntity ==
            [timestamp |-> e.timestamp, market |-> e.address,
             sequenceLength |-> e.index, funding |-> e.funding,
             fundingRate |-> e.fundingRate,
             asset |-> IF hasMarket THEN marketEntity.asset ELSE ZERO_ADDRESS,
             marketKey |-> IF hasMarket THEN marketEntity.marketKey ELSE ZERO_ADDRESS]
    IN  /\ FundingRatePeriod' =
              IF hasMarket
              THEN updateFundingRatePeriods(FundingRatePeriod, e.timestamp,
                                            marketEntity.asset, fundingRateUpdateEntity)
              ELSE FundingRatePeriod
        /\ FundingRateUpdate' = Save(FundingRateUpdate, <<e.address, e.index>>,
                                     fundingRateUpdateEntity)
        /\ UNCHANGED <<FuturesMarket, PerpsMarket, FuturesPosition, FuturesStat,
                       FuturesTrade, FuturesMarginTransfer, FuturesMarginAccount,
                       FuturesCumulativeStat, FuturesAggregateStat, FundingPayment,
                       FuturesOrder, SmartMarginOrder, SmartMarginAccount, dataSources,
                       liquidationEvents>>

(***************************************************************************)
(* handleDelayedOrderSubmitted and handleDelayedOrderRemoved               *)
(***************************************************************************)
FuturesOrderId(asset, sendingAccount, targetRoundId) ==
    <<asset, sendingAccount, targetRoundId>>

\* the order as resubmitted when an order of its key is stored: only the
\* fields of the submission are refreshed
SubmittedOrderKeepingStatus(e, marketEntity, account) ==
    LET orderId == FuturesOrderId(marketEntity.asset, e.account, e.targetRoundId)
        fresh == [size |-> e.sizeDelta, marketKey |-> marketEntity.marketKey,
                  account |-> account, abstractAccount |-> e.account,
                  targetPrice |-> ZERO, marginDelta |-> ZERO,
                  timestamp |-> timestamp, txnHash |-> txHash,
                  orderId |-> e.targetRoundId,
                  orderType |-> IF e.isOffchain THEN "DelayedOffchain" ELSE "Delayed",
                  status |-> "Pending", keeper |-> ZERO_ADDRESS]
    IN  IF Has(FuturesOrder, orderId)
        THEN [fresh EXCEPT !.status = FuturesOrder[orderId].status,
                           !.keeper = FuturesOrder[orderId].keeper]
        ELSE fresh

\* the fields handleDelayedOrderSubmitted gives the order, new or loaded
SubmittedOrder(e, marketEntity, account) ==
    [size |-> e.sizeDelta, marketKey |-> marketEntity.marketKey,
     account |-> account, abstractAccount |-> e.account,
     targetPrice |-> ZERO, marginDelta |-> ZERO,
     timestamp |-> timestamp, txnHash |-> txHash,
     orderId |-> e.targetRoundId,
     orderType |-> IF e.isOffchain THEN "DelayedOffchain" ELSE "Delayed",
     status |-> "Pending", keeper |-> ZERO_ADDRESS]

handleDelayedOrderSubmitted(e) ==
    LET sendingAccount == e.account
        account == ResolveAccount(sendingAccount)
        hasMarket == Has(FuturesMarket, e.address)
        marketEntity == FuturesMarket[e.address]
        orderId == FuturesOrderId(marketEntity.asset, sendingAccount, e.targetRoundId)
    IN  /\ FuturesOrder' =
              IF hasMarket
              THEN Save(FuturesOrder, orderId, SubmittedOrder(e, marketEntity, account))
              ELSE FuturesOrder
        /\ UNCHANGED <<FuturesMarket, PerpsMarket, FuturesPosition, FuturesStat,
                       FuturesTrade, FuturesMarginTransfer, FuturesMarginAccount,
                       FuturesCumulativeStat, FuturesAggregateStat, FundingPayment,
                       FundingRateUpdate, FundingRatePeriod, SmartMarginOrder,
                       SmartMarginAccount, dataSources, liquidationEvents>>

\* OrderFilled finding no trade, as with a wrong trade key
OrderFilledNever(hasStat, hasTrade) == FALSE

\* the order was executed: the account has a stat and the previous log of the
\* transaction recorded a trade
OrderFilled(hasStat, hasTrade) == hasStat /\ hasTrade

\* NotSelfExecuted charging every fill
NotSelfExecutedAlways(keeper, order) == TRUE

\* the keeper deposit is charged when another address executed the order
NotSelfExecuted(keeper, order) == keeper # order.account

handleDelayedOrderRemoved(e) ==
    LET sendingAccount == e.account
        account == ResolveAccount(sendingAccount)
        accountType == ResolveAccountType(sendingAccount)
        hasStat == Has(FuturesStat, account)
        stat == FuturesStat[account]
        hasMarket == Has(FuturesMarket, e.address)
        marketEntity == FuturesMarket[e.address]
        orderId == FuturesOrderId(marketEntity.asset, sendingAccount, e.targetRoundId)
        hasOrder == hasMarket /\ Has(FuturesOrder, orderId)
        order == FuturesOrder[orderId]
        smartOrderId == <<sendingAccount, marketEntity.marketKey>>
        hasSmartOrder == Has(SmartMarginOrder, smartOrderId)
        smartOrder == SmartMarginOrder[smartOrderId]
        keeper == e.from
        tradeId == AdjacentTradeId
        hasTrade == Has(FuturesTrade, tradeId)
        trade == FuturesTrade[tradeId]
        filled == hasOrder /\ OrderFilled(hasStat, hasTrade)
        hasPosition == Has(FuturesPosition, trade.positionId)
        position == FuturesPosition[trade.positionId]
        useSmartOrder == hasSmartOrder /\ smartOrder.recordTrade /\ smartOrder.orderType # "null"
        notSelfExecuted == NotSelfExecuted(keeper, order)
        trade1 == [trade EXCEPT
                      !.trackingCode = e.trackingCode,
                      !.orderType = IF useSmartOrder THEN smartOrder.orderType
                                    ELSE order.orderType]
        trade2 == IF notSelfExecuted
                  THEN [trade1 EXCEPT !.feesPaid = @ + e.keeperDeposit,
                                      !.keeperFeesPaid = e.keeperDeposit]
                  ELSE trade1
    IN  /\ FuturesOrder' =
              IF hasOrder
              THEN Save(FuturesOrder, orderId,
                        [order EXCEPT !.keeper = keeper,
                                      !.status = IF filled THEN "Filled" ELSE "Cancelled"])
              ELSE FuturesOrder
        /\ SmartMarginOrder' =
              IF filled /\ useSmartOrder
              THEN Save(SmartMarginOrder, smartOrderId,
                        [smartOrder EXCEPT !.recordTrade = FALSE])
              ELSE SmartMarginOrder
        /\ FuturesTrade' = IF filled THEN Save(FuturesTrade, tradeId, trade2)
                           ELSE FuturesTrade
        /\ FuturesStat' =
              IF filled /\ notSelfExecuted
              THEN Save(FuturesStat, account,
                        [stat EXCEPT !.feesPaid = @ + e.keeperDeposit])
              ELSE FuturesStat
        /\ FuturesPosition' =
              IF filled /\ notSelfExecuted /\ hasPosition
              THEN Save(FuturesPosition, trade.positionId,
                        [position EXCEPT !.feesPaid = @ + e.keeperDeposit])
              ELSE FuturesPosition
        /\ FuturesAggregateStat' =
              IF filled /\ notSelfExecuted /\ e.trackingCode = <<"KWENTA">>
              THEN updateAggregateStatEntities(FuturesAggregateStat, accountType,
                       marketEntity.marketKey, marketEntity.asset, timestamp,
                       ZERO, ZERO, ZERO, trade2.feesPaid)
              ELSE FuturesAggregateStat
        /\ UNCHANGED <<FuturesMarket, PerpsMarket, FuturesMarginTransfer,
                       FuturesMarginAccount, FuturesCumulativeStat, FundingPayment,
                       FundingRateUpdate, FundingRatePeriod, SmartMarginAccount,
                       dataSources, liquidationEvents>>


(***************************************************************************)
(* The event feed.  Events are delivered one at a time in emission order;  *)
(* each takes the next log index.  Position, funding and order events come *)
(* only from addresses registered as PerpsMarket data sources.  A feed     *)
(* names the values its events carry; the specifications below differ in   *)
(* the feed they deliver, never in the handlers.                           *)
(***************************************************************************)
\* the trading account, and the owner it has once it is a smart-margin proxy
Sender == "acct"
ProxyOwner == "owner"
\* the protocol keeps one position id per account and market
PositionIdOf(account) == 1

\* what MarketAdded events may carry
Listings ==
    { [market |-> "m1", asset |-> <<"sETH">>, marketKey |-> <<"sETH", "PERP">>],
      [market |-> "m2", asset |-> <<"sBTC">>, marketKey |-> <<"sBTC", "PERP">>],
      [market |-> "m2", asset |-> <<"sBTC">>, marketKey |-> <<"sBTC">>] }

\* every handler, few values
FullFeed ==
    [maxEvents |-> MaxEvents, maxTx |-> MaxTx,
     listings |-> Listings, blockTimes |-> {3000, 4000},
     sizes |-> {0, 10}, prices |-> {13}, margins |-> {0, 50}, fees |-> {1},
     fundingIndices |-> {1}, skews |-> {40},
     checkpoints |-> {[index |-> 1, funding |-> -3, fundingRate |-> 1],
                      [index |-> 2, funding |-> 4, fundingRate |-> 2]},
     marginDeltas |-> {-20, 50},
     liquidationFees |-> {[flaggerFee |-> 1, liquidatorFee |-> 1, stakersFee |-> 0]},
     orders |-> {[sizeDelta |-> 10, targetRoundId |-> 7]},
     keeperDeposits |-> {2},
     trackingCodes |-> {<<"KWENTA">>, <<"OTHER">>},
     txSenders |-> {"owner", "keeper"}]

\* the size the protocol holds for a position before the event
StoredSize(market, account) ==
    IF Has(FuturesPosition, PositionId(market, PositionIdOf(account)))
    THEN FuturesPosition[PositionId(market, PositionIdOf(account))].size
    ELSE ZERO

\* <<size, tradeSize>> of the PositionModified events the protocol can emit
\* for a position of the given size: a trade moves the size by tradeSize; an
\* event with tradeSize = 0 keeps the size (margin change) or zeroes it
\* (liquidation)
SizeMoves(stored, sizes) ==
    {<<s, s - stored>> : s \in sizes \ {stored}} \cup {<<stored, ZERO>>, <<ZERO, ZERO>>}

CanDeliver(F) == logIndex < F.maxEvents

Delivered(kind, e) ==
    /\ logIndex' = logIndex + 1
    /\ lastEvent' = [kind |-> kind, tx |-> txHash, logIndex |-> logIndex + 1,
                     timestamp |-> timestamp, params |-> e]
    /\ UNCHANGED <<txHash, timestamp>>

MarketAdded(F) ==
    /\ CanDeliver(F)
    /\ \E e \in F.listings : handleV2MarketAdded(e) /\ Delivered("MarketAdded", e)

MarketRemoved(F) ==
    /\ CanDeliver(F)
    /\ \E market \in DOMAIN FuturesMarket :
         LET e == [market |-> market]
         IN  handleMarketRemoved(e) /\ Delivered("MarketRemoved", e)

PositionModified(F) ==
    /\ CanDeliver(F)
    /\ \E address \in dataSources, margin \in F.margins, lastPrice \in F.prices,
          fee \in F.fees, fundingIndex \in F.fundingIndices :
         \E move \in SizeMoves(StoredSize(address, Sender), F.sizes) :
            LET e == [address |-> address, account |-> Sender,
                      id |-> PositionIdOf(Sender), size |-> move[1],
                      margin |-> margin, lastPrice |-> lastPrice,
                      tradeSize |-> move[2], fee |-> fee,
                      fundingIndex |-> fundingIndex]
            IN  handlePositionModified(e) /\ Delivered("PositionModified", e)

PositionModifiedV2(F) ==
    /\ CanDeliver(F)
    /\ \E address \in dataSources, margin \in F.margins, lastPrice \in F.prices,
          fee \in F.fees, fundingIndex \in F.fundingIndices, skew \in F.skews :
         \E move \in SizeMoves(StoredSize(address, Sender), F.sizes) :
            LET e == [address |-> address, account |-> Sender,
                      id |-> PositionIdOf(Sender), size |-> move[1],
                      margin |-> margin, lastPrice |-> lastPrice,
                      tradeSize |-> move[2], fee |-> fee,
                      fundingIndex |-> fundingIndex, skew |-> skew]
            IN  handlePositionModifiedV2(e) /\ Delivered("PositionModifiedV2", e)

PositionLiquidated(F) ==
    /\ CanDeliver(F)
    /\ \E address \in dataSources, size \in F.sizes \ {ZERO}, fees \in F.liquidationFees :
         LET e == [address |-> address, account |-> Sender,
                   id |-> PositionIdOf(Sender), size |-> size,
                   fee |-> fees.flaggerFee + fees.liquidatorFee + fees.stakersFee]
         IN  handlePositionLiquidated(e) /\ Delivered("PositionLiquidated", e)

PositionLiquidatedV2(F) ==
    /\ CanDeliver(F)
    /\ \E address \in dataSources, size \in F.sizes \ {ZERO}, fees \in F.liquidationFees :
         LET e == [address |-> address, account |-> Sender,
                   id |-> PositionIdOf(Sender), size |-> size,
                   flaggerFee |-> fees.flaggerFee,
                   liquidatorFee |-> fees.liquidatorFee,
                   stakersFee |-> fees.stakersFee]
         IN  handlePositionLiquidatedV2(e) /\ Delivered("PositionLiquidatedV2", e)

MarginTransferred(F) ==
    /\ CanDeliver(F)
    /\ \E address \in dataSources, marginDelta \in F.marginDeltas :
         LET e == [address |-> address, account |-> Sender,
                   marginDelta |-> marginDelta]
         IN  handleMarginTransferred(e) /\ Delivered("MarginTransferred", e)

FundingRecomputed(F) ==
    /\ CanDeliver(F)
    /\ \E address \in dataSources, c \in F.checkpoints :
         LET e == [address |-> address, index |-> c.index, timestamp |-> timestamp,
                   funding |-> c.funding, fundingRate |-> c.fundingRate]
         IN  handleFundingRecomputed(e) /\ Delivered("FundingRecomputed", e)

DelayedOrderSubmitted(F) ==
    /\ CanDeliver(F)
    /\ \E address \in dataSources, o \in F.orders, isOffchain \in BOOLEAN :
         LET e == [address |-> address, account |-> Sender, sizeDelta |-> o.sizeDelta,
                   targetRoundId |-> o.targetRoundId, isOffchain |-> isOffchain]
         IN  handleDelayedOrderSubmitted(e) /\ Delivered("DelayedOrderSubmitted", e)

DelayedOrderRemoved(F) ==
    /\ CanDeliver(F)
    /\ \E address \in dataSources, o \in F.orders, keeperDeposit \in F.keeperDeposits,
          trackingCode \in F.trackingCodes, from \in F.txSenders :
         LET e == [address |-> address, account |-> Sender,
                   targetRoundId |-> o.targetRoundId, keeperDeposit |-> keeperDeposit,
                   trackingCode |-> trackingCode, from |-> from]
         IN  handleDelayedOrderRemoved(e) /\ Delivered("DelayedOrderRemoved", e)

\* the next event belongs to a later transaction, in the same or a later block
NewTransaction(F) ==
    /\ txHash < F.maxTx
    /\ lastEvent.kind # "none"
    /\ lastEvent.tx = txHash
    /\ txHash' = txHash + 1
    /\ \E t \in F.blockTimes : t >= timestamp /\ timestamp' = t
    /\ UNCHANGED <<FuturesMarket, PerpsMarket, FuturesPosition, FuturesStat, FuturesTrade,
                   FuturesMarginTransfer, FuturesMarginAccount, FuturesCumulativeStat,
                   FuturesAggregateStat, FundingPayment, FundingRateUpdate,
                   FundingRatePeriod, FuturesOrder, SmartMarginOrder, SmartMarginAccount,
                   dataSources, logIndex, lastEvent, liquidationEvents>>

\* an event handled by another mapping of the subgraph, which records the
\* account as a smart-margin proxy
SmartMarginAccountCreated(F) ==
    /\ CanDeliver(F)
    /\ ~Has(SmartMarginAccount, Sender)
    /\ SmartMarginAccount' = Save(SmartMarginAccount, Sender, [owner |-> ProxyOwner])
    /\ Delivered("NewAccount", [account |-> Sender, owner |-> ProxyOwner])
    /\ UNCHANGED <<FuturesMarket, PerpsMarket, FuturesPosition, FuturesStat, FuturesTrade,
                   FuturesMarginTransfer, FuturesMarginAccount, FuturesCumulativeStat,
                   FuturesAggregateStat, FundingPayment, FundingRateUpdate,
                   FundingRatePeriod, FuturesOrder, SmartMarginOrder, dataSources,
                   liquidationEvents>>

Empty == [k \in {} |-> 0]

EmptyStore ==
    /\ FuturesMarket = Empty
    /\ PerpsMarket = Empty
    /\ FuturesPosition = Empty
    /\ FuturesStat = Empty
    /\ FuturesTrade = Empty
    /\ FuturesMarginTransfer = Empty
    /\ FuturesMarginAccount = Empty
    /\ FuturesCumulativeStat = Empty
    /\ FuturesAggregateStat = Empty
    /\ FundingPayment = Empty
    /\ FundingRateUpdate = Empty
    /\ FundingRatePeriod = Empty
    /\ FuturesOrder = Empty
    /\ SmartMarginOrder = Empty
    /\ SmartMarginAccount = Empty
    /\ dataSources = {}
    /\ txHash = 1
    /\ logIndex = 0
    /\ lastEvent = [kind |-> "none"]
    /\ liquidationEvents = 0

Init == EmptyStore /\ timestamp = 3000

Next ==
    \/ MarketAdded(FullFeed)
    \/ MarketRemoved(FullFeed)
    \/ PositionModified(FullFeed)
    \/ PositionModifiedV2(FullFeed)
    \/ PositionLiquidated(FullFeed)
    \/ PositionLiquidatedV2(FullFeed)
    \/ MarginTransferred(FullFeed)
    \/ FundingRecomputed(FullFeed)
    \/ DelayedOrderSubmitted(FullFeed)
    \/ DelayedOrderRemoved(FullFeed)
    \/ NewTransaction(FullFeed)
    \/ SmartMarginAccountCreated(FullFeed)

Spec == Init /\ [][Next]_vars

(***************************************************************************)
(* Trading on one market: opens, increases, reductions, flips and closes   *)
(* of long and short positions at several prices.                          *)
(***************************************************************************)
TradeFeed ==
    [maxEvents |-> MaxTradeEvents,
     listings |-> {[market |-> "m1", asset |-> <<"sETH">>,
                    marketKey |-> <<"sETH", "PERP">>]},
     sizes |-> {-15, -10, 0, 10, 15, 20, 30}, prices |-> {10, 13, 25},
     margins |-> {50}, fees |-> {1}, fundingIndices |-> {1}]

NextTrades ==
    \/ MarketAdded(TradeFeed)
    \/ PositionModified(TradeFeed)

SpecTrades == Init /\ [][NextTrades]_vars

(***************************************************************************)
(* Trades at block times on both sides of hour and day boundaries.         *)
(***************************************************************************)
SampleTimes ==
    {0, 1, ONE_HOUR_SECONDS - 1, ONE_HOUR_SECONDS, ONE_HOUR_SECONDS + 1,
     2 * ONE_HOUR_SECONDS - 1, 2 * ONE_HOUR_SECONDS,
     DAY_SECONDS - 1, DAY_SECONDS, DAY_SECONDS + 1, DAY_SECONDS + ONE_HOUR_SECONDS,
     2 * DAY_SECONDS - 1, 2 * DAY_SECONDS}

SamplePeriods == {1, 7, 60, ONE_HOUR_SECONDS, DAY_SECONDS, 7 * DAY_SECONDS}

BucketFeed ==
    [maxEvents |-> MaxBucketEvents, maxTx |-> MaxBucketTx,
     listings |-> {[market |-> "m1", asset |-> <<"sETH">>,
                    marketKey |-> <<"sETH", "PERP">>]},
     blockTimes |-> SampleTimes,
     sizes |-> {0, 10}, prices |-> {13}, margins |-> {50}, fees |-> {1},
     fundingIndices |-> {1}]

InitBuckets == EmptyStore /\ timestamp \in SampleTimes

NextBuckets ==
    \/ MarketAdded(BucketFeed)
    \/ PositionModified(BucketFeed)
    \/ NewTransaction(BucketFeed)

SpecBuckets == InitBuckets /\ [][NextBuckets]_vars


(***************************************************************************)
(* Delayed orders on one market: submitted, executed by the account or by  *)
(* a keeper right after the trade, cancelled, and submitted again.         *)
(***************************************************************************)
OrderFeed ==
    [maxEvents |-> MaxOrderEvents,
     listings |-> {[market |-> "m1", asset |-> <<"sETH">>,
                    marketKey |-> <<"sETH", "PERP">>]},
     sizes |-> {0, 10}, prices |-> {13}, margins |-> {50}, fees |-> {1},
     fundingIndices |-> {1},
     orders |-> {[sizeDelta |-> 10, targetRoundId |-> 7]},
     keeperDeposits |-> {2},
     trackingCodes |-> {<<"KWENTA">>, <<"OTHER">>},
     txSenders |-> {Sender, "keeper"}]

NextOrders ==
    \/ MarketAdded(OrderFeed)
    \/ PositionModified(OrderFeed)
    \/ DelayedOrderSubmitted(OrderFeed)
    \/ DelayedOrderRemoved(OrderFeed)

SpecOrders == Init /\ [][NextOrders]_vars

(***************************************************************************)
(* Funding on one market: two checkpoints, recomputed before or after the  *)
(* events of a short position that refer to them.                          *)
(***************************************************************************)
FundingFeed ==
    [maxEvents |-> MaxFundingEvents,
     listings |-> {[market |-> "m1", asset |-> <<"sETH">>,
                    marketKey |-> <<"sETH", "PERP">>]},
     sizes |-> {-15, -1, 0}, prices |-> {13}, margins |-> {50}, fees |-> {1},
     fundingIndices |-> {1, 2},
     checkpoints |-> {[index |-> 1, funding |-> -3, fundingRate |-> 1],
                      [index |-> 2, funding |-> 4, fundingRate |-> 2]}]

NextFunding ==
    \/ MarketAdded(FundingFeed)
    \/ FundingRecomputed(FundingFeed)
    \/ PositionModified(FundingFeed)

SpecFunding == Init /\ [][NextFunding]_vars

(***************************************************************************)
(* Properties.                                                             *)
(***************************************************************************)
\* the step delivers a PositionModified event
PositionModifiedStep ==
    /\ logIndex' = logIndex + 1
    /\ lastEvent'.kind \in {"PositionModified", "PositionModifiedV2"}

\* the last event delivered was a PositionLiquidated event, of either variant
LiquidatedLast == lastEvent.kind \in {"PositionLiquidated", "PositionLiquidatedV2"}

RECURSIVE SumOver(_, _)
\* the sum of f[k] over the keys k in S
SumOver(f, S) ==
    IF S = {} THEN 0
    ELSE LET k == CHOOSE x \in S : TRUE
         IN  f[k] + SumOver(f, S \ {k})

\* C1: every stored FuturesPosition has
\* pnlWithFeesPaid = pnl - feesPaid + netFunding.
C1_PositionPnlWithFeesPaid ==
    \A id \in DOMAIN FuturesPosition :
        FuturesPosition[id].pnlWithFeesPaid =
            FuturesPosition[id].pnl - FuturesPosition[id].feesPaid
            + FuturesPosition[id].netFunding

\* C2: every stored FuturesStat has pnlWithFeesPaid = pnl - feesPaid.
C2_StatPnlWithFeesPaid ==
    \A account \in DOMAIN FuturesStat :
        FuturesStat[account].pnlWithFeesPaid =
            FuturesStat[account].pnl - FuturesStat[account].feesPaid

\* the PositionLiquidated event just handled follows, at the next log index of
\* the same transaction, the PositionModified event that recorded the synthetic
\* Liquidation trade of the same position, a position opened by a Market trade
LiquidationCompleted ==
    /\ LiquidatedLast
    /\ Has(FuturesTrade, <<lastEvent.tx, lastEvent.logIndex - 1>>)
    /\ FuturesTrade[<<lastEvent.tx, lastEvent.logIndex - 1>>].orderType = "Liquidation"
    /\ FuturesTrade[<<lastEvent.tx, lastEvent.logIndex - 1>>].positionId =
           PositionId(lastEvent.params.address, lastEvent.params.id)
    /\ \E t \in DOMAIN FuturesTrade :
          /\ FuturesTrade[t].positionId =
                 PositionId(lastEvent.params.address, lastEvent.params.id)
          /\ FuturesTrade[t].orderType = "Market"

\* C3: after the liquidating PositionModified event and the PositionLiquidated
\* event that follows it, the position has
\* pnl = -(initialMargin + netTransfers) + feesPaid - netFunding, feesPaid
\* being all the fees of the position.
C3_LiquidationFullLoss ==
    LiquidationCompleted =>
        LET position == FuturesPosition[PositionId(lastEvent.params.address,
                                                   lastEvent.params.id)]
        IN  position.pnl = -(position.initialMargin + position.netTransfers)
                           + position.feesPaid - position.netFunding

\* C4: a PositionModified event with tradeSize = 0 that follows its margin
\* transfer (a FuturesMarginTransfer at the previous log index of the same
\* market and transaction) adds the transfer to netTransfers, and to
\* totalDeposits when positive, and records no FuturesTrade, whatever its size
\* and margin; it records a trade, the synthetic Liquidation trade, exactly
\* when there is no such transfer and its size and margin are both zero.
C4_TransferIsNotLiquidation ==
    [][ (PositionModifiedStep /\ lastEvent'.params.tradeSize = ZERO) =>
          LET e == lastEvent'.params
              pid == PositionId(e.address, e.id)
              transferId == <<e.address, lastEvent'.tx, lastEvent'.logIndex - 1>>
              tradeId == <<lastEvent'.tx, lastEvent'.logIndex>>
              oldTransfers == IF Has(FuturesPosition, pid)
                              THEN FuturesPosition[pid].netTransfers ELSE 0
              oldDeposits == IF Has(FuturesPosition, pid)
                             THEN FuturesPosition[pid].totalDeposits ELSE 0
          IN  /\ Has(FuturesMarginTransfer, transferId) =>
                    /\ ~Has(FuturesTrade', tradeId)
                    /\ FuturesPosition'[pid].netTransfers =
                           oldTransfers + FuturesMarginTransfer[transferId].size
                    /\ FuturesPosition'[pid].totalDeposits =
                           oldDeposits
                           + (IF FuturesMarginTransfer[transferId].size > 0
                              THEN FuturesMarginTransfer[transferId].size ELSE 0)
              /\ Has(FuturesTrade', tradeId) <=>
                    (/\ ~Has(FuturesMarginTransfer, transferId)
                     /\ e.size = ZERO
                     /\ e.margin = ZERO)
              /\ Has(FuturesTrade', tradeId) =>
                    FuturesTrade'[tradeId].orderType = "Liquidation"
      ]_vars

\* C4's case: a PositionModified event with tradeSize, size and margin all
\* zero was handled right after its margin transfer, and recorded no trade
C4_Witness ==
    /\ lastEvent.kind = "PositionModified"
    /\ lastEvent.params.tradeSize = ZERO
    /\ lastEvent.params.size = ZERO
    /\ lastEvent.params.margin = ZERO
    /\ Has(FuturesMarginTransfer,
           <<lastEvent.params.address, lastEvent.tx, lastEvent.logIndex - 1>>)
    /\ ~Has(FuturesTrade, <<lastEvent.tx, lastEvent.logIndex>>)
    /\ FuturesPosition[PositionId(lastEvent.params.address,
                                  lastEvent.params.id)].netTransfers # 0

\* totalTrades of every per-market FuturesCumulativeStat row
MarketTotalTrades ==
    [k \in DOMAIN FuturesCumulativeStat \ {SINGLE_INDEX} |->
        FuturesCumulativeStat[k].totalTrades]

GlobalTotal(field) ==
    IF Has(FuturesCumulativeStat, SINGLE_INDEX)
    THEN FuturesCumulativeStat[SINGLE_INDEX][field] ELSE 0

\* C5: the totalTrades of the per-market FuturesCumulativeStat rows add up to
\* the totalTrades of the global row.
C5_MarketTradesSumToGlobal ==
    SumOver(MarketTotalTrades, DOMAIN MarketTotalTrades) = GlobalTotal("totalTrades")

\* C5's case: trades were recorded in two markets
C5_Witness ==
    /\ \E k1, k2 \in DOMAIN MarketTotalTrades :
          k1 # k2 /\ MarketTotalTrades[k1] > 0 /\ MarketTotalTrades[k2] > 0
    /\ GlobalTotal("totalTrades") >= 2

\* C6: totalLiquidations of the global FuturesCumulativeStat is the number
\* of PositionLiquidated events handled.
C6_LiquidationsCounted == GlobalTotal("totalLiquidations") = liquidationEvents

\* C6's case: both variants were handled, the last one with no position,
\* stat or adjacent trade in the store
C6_Witness ==
    /\ liquidationEvents >= 2
    /\ lastEvent.kind = "PositionLiquidatedV2"
    /\ DOMAIN FuturesPosition = {}
    /\ DOMAIN FuturesStat = {}
    /\ DOMAIN FuturesTrade = {}

NoCounters(entity) ==
    /\ entity.totalLiquidations = 0
    /\ entity.totalTrades = 0
    /\ entity.totalTraders = 0
    /\ entity.totalVolume = 0
    /\ entity.averageTradeSize = 0

NoAggregates(entity) ==
    /\ entity.trades = 0
    /\ entity.volume = 0
    /\ entity.feesKwenta = 0
    /\ entity.feesSynthetix = 0
    /\ entity.feesCrossMarginAccounts = 0

\* the keys the handlers pass to the accessors
CumulativeKeys == {ToHex(l.asset) : l \in Listings} \cup {ToHex(l.marketKey) : l \in Listings}
AggregateBuckets == {0, ONE_HOUR_SECONDS, DAY_SECONDS}
AggregateAssets == {l.asset : l \in Listings} \cup {EmptyBytes}

\* C10: an accessor called for a key that is not in the store leaves the
\* store as it was, so a second call answers as the first: an entity whose
\* counters are all zero.
C10_AccessorsDoNotPersist ==
    /\ ~Has(FuturesCumulativeStat, SINGLE_INDEX) =>
          LET first == getOrCreateCumulativeEntity(FuturesCumulativeStat)
              second == getOrCreateCumulativeEntity(first.store)
          IN  /\ first.store = FuturesCumulativeStat
              /\ second.store = FuturesCumulativeStat
              /\ NoCounters(first.entity)
              /\ NoCounters(second.entity)
    /\ \A k \in CumulativeKeys :
          ~Has(FuturesCumulativeStat, k) =>
              LET first == getOrCreateMarketCumulativeStats(FuturesCumulativeStat, k)
                  second == getOrCreateMarketCumulativeStats(first.store, k)
              IN  /\ first.store = FuturesCumulativeStat
                  /\ second.store = FuturesCumulativeStat
                  /\ NoCounters(first.entity)
                  /\ NoCounters(second.entity)
    /\ \A b \in AggregateBuckets, p \in {ONE_HOUR_SECONDS, DAY_SECONDS},
          a \in AggregateAssets :
          ~Has(FuturesAggregateStat, AggregateId(b, p, a)) =>
              LET first == getOrCreateMarketAggregateStats(FuturesAggregateStat, a, a, b, p)
                  second == getOrCreateMarketAggregateStats(first.store, a, a, b, p)
              IN  /\ first.store = FuturesAggregateStat
                  /\ second.store = FuturesAggregateStat
                  /\ NoAggregates(first.entity)
                  /\ NoAggregates(second.entity)

\* C10's case: the store holds cumulative and aggregate rows with counts,
\* and lacks the rows of another market
C10_Witness ==
    /\ \E k \in CumulativeKeys :
          Has(FuturesCumulativeStat, k) /\ FuturesCumulativeStat[k].totalTrades > 0
    /\ \E k \in CumulativeKeys : ~Has(FuturesCumulativeStat, k)
    /\ \E b \in AggregateBuckets, a \in AggregateAssets :
          Has(FuturesAggregateStat, AggregateId(b, ONE_HOUR_SECONDS, a))
    /\ \E b \in AggregateBuckets, a \in AggregateAssets :
          ~Has(FuturesAggregateStat, AggregateId(b, ONE_HOUR_SECONDS, a))


\* the step delivers a PositionModified event that trades an existing
\* position down to size zero
ClosingStep ==
    /\ PositionModifiedStep
    /\ lastEvent'.params.tradeSize # ZERO
    /\ lastEvent'.params.size = ZERO
    /\ Has(FuturesPosition, PositionId(lastEvent'.params.address, lastEvent'.params.id))

\* the trades recorded for a position
TradesOf(pid) == {t \in DOMAIN FuturesTrade : FuturesTrade[t].positionId = pid}

\* C7: a PositionModified event with tradeSize # 0 and size = 0 on an
\* existing position records a trade with
\* pnl = (lastPrice - avgEntryPrice) * oldSize / ETHER, the quotient
\* truncated as BigInt.div truncates, adds that amount to position.pnl, and
\* sets isOpen = false and exitPrice = lastPrice; when the position's only
\* trade before it is the opening trade of size S at price P1, position.pnl
\* becomes (lastPrice - P1) * S / ETHER.
C7_ClosePnl ==
    [][ ClosingStep =>
          LET e == lastEvent'.params
              pid == PositionId(e.address, e.id)
              old == FuturesPosition[pid]
              new == FuturesPosition'[pid]
              tradeId == <<lastEvent'.tx, lastEvent'.logIndex>>
              newPnl == BigIntDiv((e.lastPrice - old.avgEntryPrice) * old.size, ETHER)
          IN  /\ Has(FuturesTrade', tradeId)
              /\ FuturesTrade'[tradeId].pnl = newPnl
              /\ FuturesTrade'[tradeId].positionId = pid
              /\ new.pnl = old.pnl + newPnl
              /\ new.isOpen = FALSE
              /\ new.exitPrice = Some(e.lastPrice)
              /\ \A t \in TradesOf(pid) :
                    (TradesOf(pid) = {t} /\ FuturesTrade[t].size = old.size) =>
                        new.pnl = BigIntDiv((e.lastPrice - FuturesTrade[t].price)
                                            * FuturesTrade[t].size, ETHER)
      ]_vars

\* C7's case: a short position opened and then closed at a higher price, the
\* quotient of its loss having a remainder
C7_Witness ==
    /\ lastEvent.kind = "PositionModified"
    /\ lastEvent.params.tradeSize > ZERO
    /\ lastEvent.params.size = ZERO
    /\ LET pid == PositionId(lastEvent.params.address, lastEvent.params.id)
           tradeId == <<lastEvent.tx, lastEvent.logIndex>>
       IN  /\ Has(FuturesPosition, pid)
           /\ Cardinality(TradesOf(pid)) = 2
           /\ FuturesPosition[pid].isOpen = FALSE
           /\ FuturesPosition[pid].pnl < 0
           /\ FuturesPosition[pid].pnl = FuturesTrade[tradeId].pnl
           /\ FuturesPosition[pid].pnl * ETHER #
                  -(lastEvent.params.lastPrice - FuturesPosition[pid].avgEntryPrice)
                  * lastEvent.params.tradeSize

\* size and price * |size| of the trades of a position
TradeSizes(pid) == [t \in TradesOf(pid) |-> FuturesTrade[t].size]
TradeCosts(pid) == [t \in TradesOf(pid) |-> Abs(FuturesTrade[t].size) * FuturesTrade[t].price]

\* the position was built by Market trades of one direction only
OnlyIncreases(pid) ==
    /\ TradesOf(pid) # {}
    /\ \A t \in TradesOf(pid) : FuturesTrade[t].orderType = "Market"
    /\ \/ \A t \in TradesOf(pid) : FuturesTrade[t].size > 0
       \/ \A t \in TradesOf(pid) : FuturesTrade[t].size < 0
    /\ SumOver(TradeSizes(pid), TradesOf(pid)) = FuturesPosition[pid].size

\* C8 as stated: after same-direction size increases the avgEntryPrice is the
\* volume-weighted average of the entry prices, sum of |tradeSize| * price
\* divided by the final |size|, however the size was split.
C8_VolumeWeightedAverage ==
    \A pid \in DOMAIN FuturesPosition :
        OnlyIncreases(pid) =>
            FuturesPosition[pid].avgEntryPrice =
                BigIntDiv(SumOver(TradeCosts(pid), TradesOf(pid)),
                          Abs(FuturesPosition[pid].size))

\* C8: after n same-direction size increases the avgEntryPrice is at most
\* the volume-weighted average of the entry prices and less than n - 1 below
\* it, each increase truncating its quotient; it is the truncated
\* volume-weighted average when n <= 2.
C8_TruncatedWeightedAverage ==
    \A pid \in DOMAIN FuturesPosition :
        OnlyIncreases(pid) =>
            LET n == Cardinality(TradesOf(pid))
                size == Abs(FuturesPosition[pid].size)
                cost == SumOver(TradeCosts(pid), TradesOf(pid))
                avgEntryPrice == FuturesPosition[pid].avgEntryPrice
            IN  /\ avgEntryPrice * size <= cost
                /\ n = 1 => avgEntryPrice * size = cost
                /\ n >= 2 => cost < (avgEntryPrice + n - 1) * size
                /\ n <= 2 => avgEntryPrice = BigIntDiv(cost, size)

\* C8's case: a position built by three increases at three prices whose
\* avgEntryPrice is below the truncated volume-weighted average
C8_Witness ==
    \E pid \in DOMAIN FuturesPosition :
        /\ OnlyIncreases(pid)
        /\ Cardinality(TradesOf(pid)) = 3
        /\ Cardinality({FuturesTrade[t].price : t \in TradesOf(pid)}) = 3
        /\ FuturesPosition[pid].avgEntryPrice <
               BigIntDiv(SumOver(TradeCosts(pid), TradesOf(pid)),
                         Abs(FuturesPosition[pid].size))

\* the aggregate rows of a period and asset whose bucket holds the time
BucketsHolding(time, period, asset) ==
    {id \in DOMAIN FuturesAggregateStat :
        /\ id[2] = period
        /\ id[3] = ToHex(asset)
        /\ id[1] <= time
        /\ time < id[1] + period}

\* C9: getTimeID(t, p) <= t < getTimeID(t, p) + p for every time t >= 0 and
\* period p > 0; the trades of one bucket of a period go to one
\* FuturesAggregateStat row of an asset, the row of the bucket's getTimeID.
C9_TimeBuckets ==
    /\ \A p \in SamplePeriods :
          /\ getTimeID(timestamp, p) <= timestamp
          /\ timestamp < getTimeID(timestamp, p) + p
    /\ \A t \in SampleTimes, p \in SamplePeriods :
          /\ getTimeID(t, p) <= t
          /\ t < getTimeID(t, p) + p
          /\ getTimeID(t, p) = getTimeID(timestamp, p) =>
                \A asset \in AggregateAssets :
                    AggregateId(getTimeID(t, p), p, asset) =
                        AggregateId(getTimeID(timestamp, p), p, asset)
    /\ \A i \in 1..Len(AGG_PERIODS), asset \in AggregateAssets, t \in SampleTimes :
          BucketsHolding(t, AGG_PERIODS[i], asset) \subseteq
              {AggregateId(getTimeID(t, AGG_PERIODS[i]), AGG_PERIODS[i], asset)}
    /\ (lastEvent.kind = "PositionModified" /\ lastEvent.params.tradeSize # ZERO) =>
          \A i \in 1..Len(AGG_PERIODS) :
              \A asset \in {FuturesMarket[lastEvent.params.address].asset, EmptyBytes} :
                  BucketsHolding(lastEvent.timestamp, AGG_PERIODS[i], asset) =
                      {AggregateId(getTimeID(lastEvent.timestamp, AGG_PERIODS[i]),
                                   AGG_PERIODS[i], asset)}

\* C9's case: two trades at different times of one hour were added to one
\* hourly row
C9_Witness ==
    /\ lastEvent.kind = "PositionModified"
    /\ lastEvent.params.tradeSize # ZERO
    /\ lastEvent.timestamp = ONE_HOUR_SECONDS + 1
    /\ \E id \in DOMAIN FuturesAggregateStat :
          /\ id[1] = ONE_HOUR_SECONDS
          /\ id[2] = ONE_HOUR_SECONDS
          /\ FuturesAggregateStat[id].trades = 2
    /\ \E t1, t2 \in DOMAIN FuturesTrade :
          /\ FuturesTrade[t1].timestamp = ONE_HOUR_SECONDS
          /\ FuturesTrade[t2].timestamp = ONE_HOUR_SECONDS + 1

\* C11: every stored FuturesCumulativeStat, global or per-market, with
\* totalTrades > 0 has averageTradeSize = totalVolume div totalTrades, and
\* with totalTrades = 0 has averageTradeSize = 0.
C11_AverageTradeSize ==
    \A k \in DOMAIN FuturesCumulativeStat :
        LET cum == FuturesCumulativeStat[k]
        IN  /\ cum.totalTrades >= 0
            /\ cum.totalTrades > 0 =>
                   cum.averageTradeSize = BigIntDiv(cum.totalVolume, cum.totalTrades)
            /\ cum.totalTrades = 0 => cum.averageTradeSize = 0

\* C11's case: the global row and a market row count two trades and have
\* their average, and another market row counts none
C11_Witness ==
    /\ GlobalTotal("totalTrades") = 2
    /\ GlobalTotal("averageTradeSize") > 0
    /\ \E k \in DOMAIN MarketTotalTrades :
          /\ MarketTotalTrades[k] = 2
          /\ FuturesCumulativeStat[k].averageTradeSize > 0
    /\ \E k \in DOMAIN MarketTotalTrades : MarketTotalTrades[k] = 0

\* the step delivers an event of the kind
Delivers(kind) ==
    /\ logIndex' = logIndex + 1
    /\ lastEvent'.kind = kind

\* the key of the FuturesOrder a delayed-order event addresses
OrderKeyOf(e) == FuturesOrderId(FuturesMarket[e.address].asset, e.account, e.targetRoundId)

C13_SubmittedOrderPending ==
    [][ (/\ Delivers("DelayedOrderSubmitted")
         /\ Has(FuturesMarket, lastEvent'.params.address)) =>
          LET orderId == OrderKeyOf(lastEvent'.params)
          IN  /\ Has(FuturesOrder', orderId)
              /\ FuturesOrder'[orderId].status = "Pending"
              /\ FuturesOrder'[orderId].keeper = ZERO_ADDRESS
      ]_vars

\* C13's case: an order was submitted again under the key of an order that
\* had been removed, and a trade filled under the key is stored
C13_Witness ==
    /\ lastEvent.kind = "DelayedOrderSubmitted"
    /\ Has(FuturesMarket, lastEvent.params.address)
    /\ FuturesOrder[OrderKeyOf(lastEvent.params)].status = "Pending"
    /\ FuturesOrder[OrderKeyOf(lastEvent.params)].keeper = ZERO_ADDRESS
    /\ \E t \in DOMAIN FuturesTrade : FuturesTrade[t].keeperFeesPaid > 0

\* C14: a market address becomes a source of position, funding and order
\* events exactly when a MarketAdded event whose marketKey ends with 'PERP'
\* is handled for it; a MarketAdded event with another marketKey stores the
\* Market entity and its cumulative stats and registers nothing; no other
\* event changes the registered sources, none being registered at first.
C14_PerpSuffixRegisters ==
    /\ dataSources = {}
    /\ [][ /\ Delivers("MarketAdded") =>
                LET e == lastEvent'.params
                IN  /\ Has(FuturesMarket', e.market)
                    /\ FuturesMarket'[e.market].marketKey = e.marketKey
                    /\ FuturesMarket'[e.market].marketStats = ToHex(e.marketKey)
                    /\ Has(FuturesCumulativeStat', ToHex(e.marketKey))
                    /\ dataSources' =
                           IF Len(e.marketKey) >= 1 /\ e.marketKey[Len(e.marketKey)] = "PERP"
                           THEN dataSources \cup {e.market}
                           ELSE dataSources
           /\ ~Delivers("MarketAdded") => dataSources' = dataSources
       ]_vars

\* C14's case: one market was added with a PERP key and is registered,
\* another with a key of another ending and is stored but not registered
C14_Witness ==
    /\ lastEvent.kind = "MarketAdded"
    /\ lastEvent.params.marketKey = <<"sBTC">>
    /\ Has(FuturesMarket, lastEvent.params.market)
    /\ Has(FuturesCumulativeStat, ToHex(lastEvent.params.marketKey))
    /\ lastEvent.params.market \notin dataSources
    /\ dataSources # {}

\* C15: handlePositionLiquidatedV2 with the fees flaggerFee, liquidatorFee
\* and stakersFee leaves the store handlePositionLiquidated leaves when
\* given the same account, id, size and place in the transaction and
\* fee = flaggerFee + liquidatorFee + stakersFee.
C15_LiquidatedV2AsV1 ==
    [][ Delivers("PositionLiquidatedV2") =>
          LET e2 == lastEvent'.params
          IN  handlePositionLiquidated(
                  [address |-> e2.address, account |-> e2.account, id |-> e2.id,
                   size |-> e2.size,
                   fee |-> e2.flaggerFee + e2.liquidatorFee + e2.stakersFee])
      ]_vars

\* C15's case: the V2 event liquidated a stored position whose Liquidation
\* trade is at the previous log index, with a stat to update
C15_Witness ==
    /\ lastEvent.kind = "PositionLiquidatedV2"
    /\ lastEvent.params.flaggerFee > 0
    /\ lastEvent.params.liquidatorFee > 0
    /\ LET pid == PositionId(lastEvent.params.address, lastEvent.params.id)
           tradeId == <<lastEvent.tx, lastEvent.logIndex - 1>>
       IN  /\ Has(FuturesPosition, pid)
           /\ FuturesPosition[pid].isLiquidated
           /\ Has(FuturesTrade, tradeId)
           /\ FuturesTrade[tradeId].orderType = "Liquidation"
           /\ FuturesTrade[tradeId].size = -lastEvent.params.size
           /\ \E account \in DOMAIN FuturesStat : FuturesStat[account].liquidations = 1

\* the step delivers a DelayedOrderRemoved event that fills a stored order
FillingStep ==
    /\ Delivers("DelayedOrderRemoved")
    /\ Has(FuturesMarket, lastEvent'.params.address)
    /\ Has(FuturesOrder, OrderKeyOf(lastEvent'.params))
    /\ FuturesOrder'[OrderKeyOf(lastEvent'.params)].status = "Filled"

\* a field of an aggregate row, zero while the row is not stored
AggregateField(table, id, field) == IF Has(table, id) THEN table[id][field] ELSE 0

\* the aggregate rows an update at the time addresses for the asset
AffectedRows(time, asset) ==
    {AggregateId(getTimeID(time, AGG_PERIODS[i]), AGG_PERIODS[i], a) :
        i \in 1..Len(AGG_PERIODS), a \in {asset, EmptyBytes}}

\* C16: a DelayedOrderRemoved event that fills an order, is not
\* self-executed and carries the KWENTA tracking code adds keeperDeposit to
\* feesKwenta of every FuturesAggregateStat row of its time and market, and
\* leaves trades, volume and feesSynthetix of the rows as they were.
C16_KeeperDepositToAggregates ==
    [][ (/\ FillingStep
         /\ lastEvent'.params.from # FuturesOrder[OrderKeyOf(lastEvent'.params)].account
         /\ lastEvent'.params.trackingCode = <<"KWENTA">>) =>
          \A id \in AffectedRows(lastEvent'.timestamp,
                                 FuturesMarket[lastEvent'.params.address].asset) :
              /\ Has(FuturesAggregateStat', id)
              /\ FuturesAggregateStat'[id].feesKwenta =
                     AggregateField(FuturesAggregateStat, id, "feesKwenta")
                     + lastEvent'.params.keeperDeposit
              /\ FuturesAggregateStat'[id].trades =
                     AggregateField(FuturesAggregateStat, id, "trades")
              /\ FuturesAggregateStat'[id].volume =
                     AggregateField(FuturesAggregateStat, id, "volume")
              /\ FuturesAggregateStat'[id].feesSynthetix =
                     AggregateField(FuturesAggregateStat, id, "feesSynthetix")
      ]_vars

AggregateFields == {"trades", "volume", "feesSynthetix", "feesKwenta", "feesCrossMarginAccounts"}

\* the rows of single assets in a bucket of a period
AssetRows(bucket, period) ==
    {id \in DOMAIN FuturesAggregateStat :
        id[1] = bucket /\ id[2] = period /\ id[3] # ToHex(EmptyBytes)}

\* the event just delivered came from a smart-margin account
FromSmartMargin ==
    /\ "account" \in DOMAIN lastEvent'.params
    /\ Has(SmartMarginAccount, lastEvent'.params.account)

\* C17: for each bucket start and period, every field of the all-markets
\* FuturesAggregateStat row is the sum of the field over the rows of the
\* assets; a row's feesCrossMarginAccounts grows by what its feesSynthetix
\* and feesKwenta grow by in an update for a smart-margin account, and by
\* nothing in any other.
C17_AllMarketsRowIsSum ==
    /\ [](\A id \in DOMAIN FuturesAggregateStat :
            LET all == <<id[1], id[2], ToHex(EmptyBytes)>>
            IN  /\ Has(FuturesAggregateStat, all)
                /\ \A field \in AggregateFields :
                      FuturesAggregateStat[all][field] =
                          SumOver([r \in AssetRows(id[1], id[2]) |->
                                      FuturesAggregateStat[r][field]],
                                  AssetRows(id[1], id[2])))
    /\ [][ logIndex' = logIndex + 1 =>
             \A id \in DOMAIN FuturesAggregateStat' :
                 FuturesAggregateStat'[id].feesCrossMarginAccounts
                 - AggregateField(FuturesAggregateStat, id, "feesCrossMarginAccounts") =
                     IF FromSmartMargin
                     THEN (FuturesAggregateStat'[id].feesSynthetix
                           - AggregateField(FuturesAggregateStat, id, "feesSynthetix"))
                          + (FuturesAggregateStat'[id].feesKwenta
                             - AggregateField(FuturesAggregateStat, id, "feesKwenta"))
                     ELSE 0
       ]_vars

\* C17's case: trades of two assets in one hour, the all-markets row of the
\* hour counting both
C17_Witness ==
    \E id \in DOMAIN FuturesAggregateStat :
        /\ id[2] = ONE_HOUR_SECONDS
        /\ id[3] = ToHex(EmptyBytes)
        /\ Cardinality(AssetRows(id[1], id[2])) = 2
        /\ \A r \in AssetRows(id[1], id[2]) : FuturesAggregateStat[r].trades = 1
        /\ FuturesAggregateStat[id].trades = 2
        /\ FuturesAggregateStat[id].feesSynthetix = 2

\* the FundingRatePeriod rows a FundingRecomputed event of the time addresses
PeriodRows(asset, time) ==
    {FundingRatePeriodId(asset, FUNDING_RATE_PERIOD_TYPES[p],
                         getTimeID(time, FUNDING_RATE_PERIODS[p])) :
        p \in 1..Len(FUNDING_RATE_PERIODS)}

\* C18: every FundingRatePeriod row keyed (asset, periodType, bucketStart)
\* has bucketStart as its timestamp; a FundingRecomputed event for a market
\* with a Market entity sets fundingRate of the rows of its buckets to its
\* rate, creating the rows that are missing, and changes nothing else of
\* the rows; every other event leaves all rows as they are, so each row has
\* the rate of the last event of its bucket.
C18_FundingRatePeriods ==
    /\ [](\A id \in DOMAIN FundingRatePeriod :
            /\ FundingRatePeriod[id].timestamp = id[3]
            /\ FundingRatePeriod[id].period = id[2])
    /\ [][ IF Delivers("FundingRecomputed") /\ Has(FuturesMarket, lastEvent'.params.address)
           THEN LET e == lastEvent'.params
                    rows == PeriodRows(FuturesMarket[e.address].asset, e.timestamp)
                IN  /\ DOMAIN FundingRatePeriod' = DOMAIN FundingRatePeriod \cup rows
                    /\ \A id \in rows :
                          /\ FundingRatePeriod'[id].fundingRate = e.fundingRate
                          /\ Has(FundingRatePeriod, id) =>
                                FundingRatePeriod'[id] =
                                    [FundingRatePeriod[id] EXCEPT
                                        !.fundingRate = e.fundingRate]
                    /\ \A id \in DOMAIN FundingRatePeriod \ rows :
                          FundingRatePeriod'[id] = FundingRatePeriod[id]
           ELSE FundingRatePeriod' = FundingRatePeriod
       ]_vars

\* C18's case: two events of one day and two hours: the day's row has the
\* rate of the second, the first hour's row the rate of the first
C18_Witness ==
    /\ lastEvent.kind = "FundingRecomputed"
    /\ Has(FuturesMarket, lastEvent.params.address)
    /\ LET asset == FuturesMarket[lastEvent.params.address].asset
           day == FundingRatePeriodId(asset, "Daily",
                                      getTimeID(lastEvent.params.timestamp, DAY_SECONDS))
       IN  /\ Has(FundingRatePeriod, day)
           /\ FundingRatePeriod[day].fundingRate = lastEvent.params.fundingRate
           /\ FundingRatePeriod[day].timestamp < lastEvent.params.timestamp
           /\ \E hour \in DOMAIN FundingRatePeriod :
                 /\ hour[1] = asset
                 /\ hour[2] = "Hourly"
                 /\ hour[3] < getTimeID(lastEvent.params.timestamp, ONE_HOUR_SECONDS)
                 /\ FundingRatePeriod[hour].fundingRate # lastEvent.params.fundingRate

\* the step delivers a PositionModified event to a stored position whose
\* fundingIndex is not the event's
FundingIndexMoves ==
    /\ PositionModifiedStep
    /\ Has(FuturesPosition, PositionId(lastEvent'.params.address, lastEvent'.params.id))
    /\ FuturesPosition[PositionId(lastEvent'.params.address,
                                  lastEvent'.params.id)].fundingIndex
           # lastEvent'.params.fundingIndex

\* C19: on a PositionModified event whose fundingIndex differs from the
\* stored position's: with FundingRateUpdate entities at both indices of the
\* market, netFunding grows by (currentFunding - pastFunding) * (the size
\* before the event) / ETHER, the stat's feesPaid falls by that amount (and
\* grows by the event's fee), and the stored fundingIndex becomes the
\* event's, also when the amount is zero; with a checkpoint missing,
\* netFunding and the stored fundingIndex stay as they were.
C19_FundingAccrual ==
    [][ FundingIndexMoves =>
          LET e == lastEvent'.params
              pid == PositionId(e.address, e.id)
              old == FuturesPosition[pid]
              new == FuturesPosition'[pid]
              past == <<e.address, old.fundingIndex>>
              current == <<e.address, e.fundingIndex>>
              accrued == BigIntDiv((FundingRateUpdate[current].funding
                                    - FundingRateUpdate[past].funding) * old.size, ETHER)
          IN  IF Has(FundingRateUpdate, past) /\ Has(FundingRateUpdate, current)
              THEN /\ new.netFunding = old.netFunding + accrued
                   /\ new.fundingIndex = e.fundingIndex
                   /\ FuturesStat'[old.account].feesPaid =
                          FuturesStat[old.account].feesPaid - accrued + e.fee
              ELSE /\ new.netFunding = old.netFunding
                   /\ new.fundingIndex = old.fundingIndex
                   /\ FuturesStat'[old.account].feesPaid =
                          FuturesStat[old.account].feesPaid + e.fee
      ]_vars

\* C19's case: funding accrued on a short position, truncated toward zero,
\* while the event changed the size
C19_Witness ==
    /\ lastEvent.kind = "PositionModified"
    /\ lastEvent.params.fundingIndex = 2
    /\ lastEvent.params.size = ZERO
    /\ lastEvent.params.tradeSize = 15
    /\ LET pid == PositionId(lastEvent.params.address, lastEvent.params.id)
       IN  /\ Has(FuturesPosition, pid)
           /\ FuturesPosition[pid].fundingIndex = 2
           /\ FuturesPosition[pid].netFunding = -10
           /\ \E id \in DOMAIN FundingPayment : FundingPayment[id].amount = -10

\* C20: a DelayedOrderRemoved event that fills an order adds keeperDeposit to
\* the feesPaid of the trade, setting the trade's keeperFeesPaid to it, to
\* the feesPaid of the account's FuturesStat and to the feesPaid of the
\* trade's position when the sender of the transaction is not the order's
\* account, and changes none of them when it is.
C20_KeeperDepositUnlessSelfExecuted ==
    [][ FillingStep =>
          LET e == lastEvent'.params
              order == FuturesOrder[OrderKeyOf(e)]
              tradeId == <<lastEvent'.tx, lastEvent'.logIndex - 1>>
              pid == FuturesTrade[tradeId].positionId
              charged == IF e.from # order.account THEN e.keeperDeposit ELSE 0
          IN  /\ FuturesTrade'[tradeId].feesPaid = FuturesTrade[tradeId].feesPaid + charged
              /\ FuturesTrade'[tradeId].keeperFeesPaid =
                     IF e.from # order.account THEN e.keeperDeposit
                     ELSE FuturesTrade[tradeId].keeperFeesPaid
              /\ FuturesStat'[order.account].feesPaid =
                     FuturesStat[order.account].feesPaid + charged
              /\ Has(FuturesPosition, pid) =>
                     FuturesPosition'[pid].feesPaid = FuturesPosition[pid].feesPaid + charged
              /\ \A t \in DOMAIN FuturesTrade \ {tradeId} : FuturesTrade'[t] = FuturesTrade[t]
      ]_vars

\* C20's case: the account executed its own order, after a keeper had
\* executed an earlier one: the keeper's deposit is on the earlier trade
\* only
C20_Witness ==
    /\ lastEvent.kind = "DelayedOrderRemoved"
    /\ lastEvent.params.from = lastEvent.params.account
    /\ lastEvent.params.keeperDeposit > 0
    /\ Has(FuturesOrder, OrderKeyOf(lastEvent.params))
    /\ FuturesOrder[OrderKeyOf(lastEvent.params)].status = "Filled"
    /\ FuturesOrder[OrderKeyOf(lastEvent.params)].keeper = lastEvent.params.from
    /\ FuturesTrade[<<lastEvent.tx, lastEvent.logIndex - 1>>].keeperFeesPaid = 0
    /\ FuturesTrade[<<lastEvent.tx, lastEvent.logIndex - 1>>].feesPaid = 1
    /\ \E t \in DOMAIN FuturesTrade :
          /\ FuturesTrade[t].keeperFeesPaid = lastEvent.params.keeperDeposit
          /\ FuturesTrade[t].feesPaid = 1 + lastEvent.params.keeperDeposit

\* the step delivers a PositionLiquidated event, of either variant
LiquidationStep ==
    /\ logIndex' = logIndex + 1
    /\ lastEvent'.kind \in {"PositionLiquidated", "PositionLiquidatedV2"}

\* the liquidation fee a PositionLiquidated event of either variant carries
LiquidationFee(ev) ==
    IF ev.kind = "PositionLiquidated" THEN ev.params.fee
    ELSE ev.params.flaggerFee + ev.params.liquidatorFee + ev.params.stakersFee

\* the position a PositionLiquidated event names
LiquidatedId(ev) == PositionId(ev.params.address, ev.params.id)

\* C21: a PositionLiquidated event with fee F for a stored position turns
\* the FuturesTrade stored at (tx, logIndex - 1) into one with size = -event
\* size, positionSize = 0 and feesPaid and pnl each F higher; when no trade is
\* stored at that key no FuturesTrade is created or modified, while the
\* position and the liquidation counter are updated all the same.
C21_LiquidationPatchesAdjacentTrade ==
    [][ (LiquidationStep /\ Has(FuturesPosition, LiquidatedId(lastEvent'))) =>
          LET ev  == lastEvent'
              F   == LiquidationFee(ev)
              pid == LiquidatedId(ev)
              tid == <<ev.tx, ev.logIndex - 1>>
          IN  /\ IF Has(FuturesTrade, tid)
                 THEN /\ DOMAIN FuturesTrade' = DOMAIN FuturesTrade
                      /\ FuturesTrade'[tid] =
                            [FuturesTrade[tid] EXCEPT
                                !.size = -ev.params.size,
                                !.positionSize = 0,
                                !.feesPaid = FuturesTrade[tid].feesPaid + F,
                                !.pnl = FuturesTrade[tid].pnl + F]
                      /\ \A t \in DOMAIN FuturesTrade \ {tid} :
                            FuturesTrade'[t] = FuturesTrade[t]
                 ELSE FuturesTrade' = FuturesTrade
              /\ FuturesPosition'[pid].isLiquidated
              /\ FuturesPosition'[pid].feesPaid = FuturesPosition[pid].feesPaid + F
              /\ GlobalTotal("totalLiquidations")' = GlobalTotal("totalLiquidations") + 1
      ]_vars

\* C21's case: a liquidation patched the trade at the previous log index,
\* and a later one, in another transaction, found no trade at its previous
\* log index and still updated the position
C21_Witness ==
    /\ LiquidatedLast
    /\ liquidationEvents = 2
    /\ Has(FuturesPosition, LiquidatedId(lastEvent))
    /\ FuturesPosition[LiquidatedId(lastEvent)].isLiquidated
    /\ FuturesPosition[LiquidatedId(lastEvent)].feesPaid >= 2 * LiquidationFee(lastEvent)
    /\ ~Has(FuturesTrade, <<lastEvent.tx, lastEvent.logIndex - 1>>)
    /\ \E t \in DOMAIN FuturesTrade :
          /\ FuturesTrade[t].size = -lastEvent.params.size
          /\ FuturesTrade[t].positionSize = 0

\* C22: every PositionLiquidated event, of either variant, for whose resolved
\* account a FuturesStat is stored adds 1 to that stat's liquidations and the
\* liquidation fee to its feesPaid and to its pnl.
C22_StatCountsLiquidation ==
    [][ (LiquidationStep /\ Has(FuturesStat, ResolveAccount(lastEvent'.params.account))) =>
          LET account == ResolveAccount(lastEvent'.params.account)
              F == LiquidationFee(lastEvent')
          IN  /\ FuturesStat'[account].liquidations = FuturesStat[account].liquidations + 1
              /\ FuturesStat'[account].feesPaid = FuturesStat[account].feesPaid + F
              /\ FuturesStat'[account].pnl = FuturesStat[account].pnl + F
      ]_vars

\* the step delivers a PositionModified event that trades a stored position
TradingStep ==
    /\ PositionModifiedStep
    /\ lastEvent'.params.tradeSize # ZERO
    /\ Has(FuturesPosition, PositionId(lastEvent'.params.address, lastEvent'.params.id))

\* the pnl column of the stat of an account, zero while no stat is stored
StatPnl(account) == IF Has(FuturesStat, account) THEN FuturesStat[account].pnl ELSE 0

\* C23: a PositionModified event with tradeSize # 0 whose size is non-zero
\* and of the sign opposite to the position's stored size records a trade
\* with pnl = (lastPrice - avgEntryPrice) * oldSize / ETHER on the whole old
\* size, adds it to position.pnl and stat.pnl, sets avgEntryPrice and
\* entryPrice to lastPrice, and leaves isOpen as it was.
C23_SideFlip ==
    [][ (/\ TradingStep
         /\ lastEvent'.params.size *
            FuturesPosition[PositionId(lastEvent'.params.address,
                                       lastEvent'.params.id)].size < 0) =>
          LET e   == lastEvent'.params
              pid == PositionId(e.address, e.id)
              old == FuturesPosition[pid]
              account == ResolveAccount(e.account)
              newPnl == BigIntDiv((e.lastPrice - old.avgEntryPrice) * old.size, ETHER)
          IN  /\ FuturesTrade'[<<lastEvent'.tx, lastEvent'.logIndex>>].pnl = newPnl
              /\ FuturesPosition'[pid].pnl = old.pnl + newPnl
              /\ FuturesStat'[account].pnl = StatPnl(account) + newPnl
              /\ FuturesPosition'[pid].avgEntryPrice = e.lastPrice
              /\ FuturesPosition'[pid].entryPrice = e.lastPrice
              /\ FuturesPosition'[pid].isOpen = old.isOpen
      ]_vars

\* C23's case: a long of 10 opened at 10 was flipped to a short of 15 at 13,
\* and the short flipped back to a long at 10, the second pnl being a
\* truncated quotient
C23_Witness ==
    /\ lastEvent.kind = "PositionModified"
    /\ lastEvent.params.size > 0
    /\ lastEvent.params.lastPrice = 10
    /\ LET pid == PositionId(lastEvent.params.address, lastEvent.params.id)
       IN  /\ Has(FuturesPosition, pid)
           /\ FuturesPosition[pid].isOpen
           /\ FuturesPosition[pid].avgEntryPrice = 10
           /\ FuturesPosition[pid].pnl = 3 + 4
           /\ FuturesTrade[<<lastEvent.tx, lastEvent.logIndex>>].pnl = 4
           /\ \E t \in TradesOf(pid) :
                 FuturesTrade[t].positionSize = -15 /\ FuturesTrade[t].pnl = 3

\* the step delivers a PositionModified event with a trade that creates the
\* position it names
OpeningStep ==
    /\ PositionModifiedStep
    /\ lastEvent'.params.tradeSize # ZERO
    /\ lastEvent'.params.size # ZERO
    /\ ~Has(FuturesPosition, PositionId(lastEvent'.params.address, lastEvent'.params.id))

\* C24: a PositionModified event with tradeSize # 0 whose size is non-zero,
\* of the sign of the stored size and not larger in absolute value records a
\* trade with pnl = (lastPrice - avgEntryPrice) * |tradeSize| * sign(size) /
\* ETHER and leaves avgEntryPrice as it was; the first trade of a position
\* the event creates is such a trade, with pnl 0.
C24_ReducePnl ==
    [][ /\ (/\ TradingStep
            /\ lastEvent'.params.size *
               FuturesPosition[PositionId(lastEvent'.params.address,
                                          lastEvent'.params.id)].size > 0
            /\ Abs(lastEvent'.params.size) <=
               Abs(FuturesPosition[PositionId(lastEvent'.params.address,
                                              lastEvent'.params.id)].size)) =>
             LET e   == lastEvent'.params
                 pid == PositionId(e.address, e.id)
                 old == FuturesPosition[pid]
                 sign == IF e.size > 0 THEN 1 ELSE -1
                 newPnl == BigIntDiv((e.lastPrice - old.avgEntryPrice)
                                     * Abs(e.tradeSize) * sign, ETHER)
             IN  /\ FuturesTrade'[<<lastEvent'.tx, lastEvent'.logIndex>>].pnl = newPnl
                 /\ FuturesPosition'[pid].pnl = old.pnl + newPnl
                 /\ FuturesPosition'[pid].avgEntryPrice = old.avgEntryPrice
        /\ OpeningStep =>
             LET e   == lastEvent'.params
                 pid == PositionId(e.address, e.id)
             IN  /\ FuturesTrade'[<<lastEvent'.tx, lastEvent'.logIndex>>].pnl = 0
                 /\ FuturesPosition'[pid].pnl = 0
                 /\ FuturesPosition'[pid].avgEntryPrice = e.lastPrice
      ]_vars

\* C24's case: a short of 15 opened at 13, its first trade with pnl 0, was
\* reduced to 10 at 10, the pnl (10 - 13) * 5 * (-1) / 10 truncated to 1
C24_Witness ==
    /\ lastEvent.kind = "PositionModified"
    /\ lastEvent.params.size = -10
    /\ lastEvent.params.tradeSize = 5
    /\ lastEvent.params.lastPrice = 10
    /\ LET pid == PositionId(lastEvent.params.address, lastEvent.params.id)
       IN  /\ Has(FuturesPosition, pid)
           /\ FuturesPosition[pid].avgEntryPrice = 13
           /\ FuturesPosition[pid].pnl = 1
           /\ FuturesPosition[pid].trades = 2
           /\ FuturesTrade[<<lastEvent.tx, lastEvent.logIndex>>].pnl = 1
           /\ \E t \in TradesOf(pid) :
                 FuturesTrade[t].positionSize = -15 /\ FuturesTrade[t].pnl = 0

\* the step delivers an event of a listed market that the handlers count in
\* the per-market statistics
MarketCountingStep ==
    /\ logIndex' = logIndex + 1
    /\ lastEvent'.kind \in {"PositionModified", "PositionModifiedV2", "MarginTransferred",
                            "PositionLiquidated", "PositionLiquidatedV2"}
    /\ Has(FuturesMarket, lastEvent'.params.address)

\* C25: the per-market FuturesCumulativeStat row a FuturesMarket entity links
\* to, created by handleV2MarketAdded under the marketKey, is the row in
\* which the PositionModified, MarginTransferred and PositionLiquidated
\* events of that market count: such an event writes no per-market row but
\* the linked one.
C25_LinkedRowIsCounted ==
    [][ MarketCountingStep =>
          \A k \in DOMAIN FuturesCumulativeStat' \
                   {SINGLE_INDEX, FuturesMarket[lastEvent'.params.address].marketStats} :
             /\ Has(FuturesCumulativeStat, k)
             /\ FuturesCumulativeStat'[k] = FuturesCumulativeStat[k]
      ]_vars

\* C26: the FuturesTrade with key (tx, i) is written by the PositionModified
\* event at (tx, i) and by no other, and from then on it is modified only by
\* a PositionLiquidated or DelayedOrderRemoved event at (tx, i + 1); every
\* other step leaves the fields of every stored trade as they are, and no
\* trade is ever removed.
C26_TradeFrame ==
    [][ /\ \A t \in DOMAIN FuturesTrade' \ DOMAIN FuturesTrade :
              /\ PositionModifiedStep
              /\ t = <<lastEvent'.tx, lastEvent'.logIndex>>
        /\ \A t \in DOMAIN FuturesTrade :
              /\ t \in DOMAIN FuturesTrade'
              /\ FuturesTrade'[t] # FuturesTrade[t] =>
                    /\ logIndex' = logIndex + 1
                    /\ lastEvent'.kind \in {"PositionLiquidated", "PositionLiquidatedV2",
                                            "DelayedOrderRemoved"}
                    /\ t = <<lastEvent'.tx, lastEvent'.logIndex - 1>>
      ]_vars

\* C26's case: the trade of a PositionModified event was patched by the
\* PositionLiquidated event at the next log index, and the event after that,
\* a second liquidation of the same position, left it as it was
C26_Witness ==
    /\ LiquidatedLast
    /\ liquidationEvents = 2
    /\ Has(FuturesTrade, <<lastEvent.tx, lastEvent.logIndex - 2>>)
    /\ ~Has(FuturesTrade, <<lastEvent.tx, lastEvent.logIndex - 1>>)
    /\ LET trade == FuturesTrade[<<lastEvent.tx, lastEvent.logIndex - 2>>]
       IN  /\ trade.positionId = LiquidatedId(lastEvent)
           /\ trade.size = -lastEvent.params.size
           /\ trade.positionSize = 0
           /\ trade.feesPaid = 1 + LiquidationFee(lastEvent)

\* C27: the FuturesMarket entity a MarketAdded event creates for an address
\* stays in the store through every other event and is deleted by a
\* MarketRemoved event for that address, after which no FuturesMarket entity
\* is stored under that key.
C27_MarketLifetime ==
    [][ \A m \in DOMAIN FuturesMarket :
           IF Delivers("MarketRemoved") /\ lastEvent'.params.market = m
           THEN ~Has(FuturesMarket', m)
           ELSE Has(FuturesMarket', m)
      ]_vars

\* C28: in every reachable state every stored FuturesPosition has
\* entryPrice = avgEntryPrice, so that the weighted average of an increase,
\* which the handler computes from entryPrice, is the one avgEntryPrice
\* would give.
C28_EntryPricesAgree ==
    \A pid \in DOMAIN FuturesPosition :
       FuturesPosition[pid].entryPrice = FuturesPosition[pid].avgEntryPrice

\* C28's case: a position opened at 10 was increased at 13 and at 25, both
\* prices moving to the truncated averages 11 and 15
C28_Witness ==
    /\ lastEvent.kind = "PositionModified"
    /\ lastEvent.params.size = 30
    /\ lastEvent.params.lastPrice = 25
    /\ \E pid \in DOMAIN FuturesPosition :
          /\ FuturesPosition[pid].trades = 3
          /\ FuturesPosition[pid].entryPrice = 15
          /\ FuturesPosition[pid].avgEntryPrice = 15

\* C29: in every reachable state a FuturesPosition with isLiquidated = true
\* has isOpen = false, and a stored position whose isOpen is false keeps
\* isOpen = false through every step, PositionModified events with non-zero
\* size for the same position id included.
C29_ClosedStaysClosed ==
    /\ [](\A pid \in DOMAIN FuturesPosition :
             FuturesPosition[pid].isLiquidated => ~FuturesPosition[pid].isOpen)
    /\ [][ \A pid \in DOMAIN FuturesPosition :
              ~FuturesPosition[pid].isOpen =>
                 /\ Has(FuturesPosition', pid)
                 /\ ~FuturesPosition'[pid].isOpen
         ]_vars

\* C29's case: a liquidated position received a PositionModified event with
\* non-zero size and is still closed
C29_Witness ==
    /\ lastEvent.kind \in {"PositionModified", "PositionModifiedV2"}
    /\ lastEvent.params.size # 0
    /\ LET pid == PositionId(lastEvent.params.address, lastEvent.params.id)
       IN  /\ Has(FuturesPosition, pid)
           /\ FuturesPosition[pid].isLiquidated
           /\ FuturesPosition[pid].size # 0
           /\ ~FuturesPosition[pid].isOpen

\* the pnl column of the trades
TradePnls == [t \in DOMAIN FuturesTrade |-> FuturesTrade[t].pnl]

PnlGap(positions, trades, pid) ==
    (IF Has(positions, pid) THEN positions[pid].pnl ELSE 0)
    - SumOver([t \in DOMAIN trades |-> trades[t].pnl],
              {t \in DOMAIN trades : trades[t].positionId = pid})

\* the fee the step adds to the pnl of position pid and to none of its
\* trades, less the fee it adds to a trade of pid and not to the position: a
\* PositionLiquidated event for a stored position adds its fee to the pnl of
\* that position and to the pnl of the trade stored at (tx, logIndex - 1)
UnmatchedFee(pid) ==
    IF LiquidationStep /\ Has(FuturesPosition, LiquidatedId(lastEvent'))
    THEN LET tid == <<lastEvent'.tx, lastEvent'.logIndex - 1>>
             F   == LiquidationFee(lastEvent')
         IN  (IF pid = LiquidatedId(lastEvent') THEN F ELSE 0)
             - (IF Has(FuturesTrade, tid) /\ FuturesTrade[tid].positionId = pid
                THEN F ELSE 0)
    ELSE 0

PaymentsOf(pid) == {p \in DOMAIN FundingPayment : FundingPayment[p].positionId = pid}

\* the amount column of the funding payments
PaymentAmounts == [p \in DOMAIN FundingPayment |-> FundingPayment[p].amount]

\* the funding the PositionModified event of the step accrues: on a stored
\* position whose funding index moves between two stored checkpoints, the
\* difference of their funding times the stored size, over ETHER, truncated
AccruedByStep ==
    LET e   == lastEvent'.params
        pid == PositionId(e.address, e.id)
    IN  IF /\ PositionModifiedStep
           /\ Has(FuturesPosition, pid)
           /\ FuturesPosition[pid].fundingIndex # e.fundingIndex
           /\ Has(FundingRateUpdate, <<e.address, FuturesPosition[pid].fundingIndex>>)
           /\ Has(FundingRateUpdate, <<e.address, e.fundingIndex>>)
        THEN BigIntDiv((FundingRateUpdate[<<e.address, e.fundingIndex>>].funding
                        - FundingRateUpdate[<<e.address,
                                              FuturesPosition[pid].fundingIndex>>].funding)
                       * FuturesPosition[pid].size, ETHER)
        ELSE 0

\* C31: after any sequence of events the netFunding of each FuturesPosition
\* is the sum of the amounts of the FundingPayment entities recorded for it,
\* and a FundingPayment is recorded exactly for the PositionModified events
\* whose accrued funding is not zero: such an event records one payment, of
\* that amount, under its own key, every other step records none, and no
\* recorded payment is changed or removed.
C31_NetFundingIsSumOfPayments ==
    /\ [](\A pid \in DOMAIN FuturesPosition :
             FuturesPosition[pid].netFunding = SumOver(PaymentAmounts, PaymentsOf(pid)))
    /\ [][ /\ \A p \in DOMAIN FundingPayment :
                 Has(FundingPayment', p) /\ FundingPayment'[p] = FundingPayment[p]
           /\ IF AccruedByStep # 0
              THEN LET e   == lastEvent'.params
                       pid == PositionId(e.address, e.id)
                       key == <<pid, lastEvent'.tx, lastEvent'.logIndex>>
                   IN  /\ DOMAIN FundingPayment' = DOMAIN FundingPayment \cup {key}
                       /\ ~Has(FundingPayment, key)
                       /\ FundingPayment'[key].positionId = pid
                       /\ FundingPayment'[key].amount = AccruedByStep
              ELSE DOMAIN FundingPayment' = DOMAIN FundingPayment
         ]_vars

\* C31's case: a short of 1 moved from funding index 1 to 2, the accrued
\* 7 * (-1) / 10 truncating to zero, with no payment recorded; the event
\* made it a short of 15, which moved back to index 1 and accrued
\* (-7) * (-15) / 10 = 10, recorded as the position's one payment
C31_Witness ==
    /\ lastEvent.kind = "PositionModified"
    /\ lastEvent.params.fundingIndex = 1
    /\ LET pid == PositionId(lastEvent.params.address, lastEvent.params.id)
       IN  /\ Has(FuturesPosition, pid)
           /\ FuturesPosition[pid].netFunding = 10
           /\ PaymentsOf(pid) = {<<pid, lastEvent.tx, lastEvent.logIndex>>}
           /\ \E t \in TradesOf(pid) :
                 /\ FuturesTrade[t].positionSize = -15
                 /\ FuturesTrade[t].size = -14
                 /\ FuturesTrade[t].fundingAccrued = 0

====
